---- MODULE Spec2Model ----
(***************************************************************************)
(* Session lifecycle of the Task Manager front end                         *)
(* (frontend/src/context/AuthContext.js, frontend/src/components/Login.js).*)
(*                                                                         *)
(* Time is counted in minutes: EXPIRY_TIME, WARNING_TIME and               *)
(* CHECK_INTERVAL are the values of SESSION_CONFIG divided by 60 * 1000.   *)
(* Date.now() is a read of the clock `now`; two reads made by one handler  *)
(* need not return the same value: a handler runs far faster than the     *)
(* clock ticks, so the clock ticks at most once while one handler runs.    *)
(*                                                                         *)
(* Further parts, each with variables and a specification of its own:      *)
(* useDebounce and the search effect of Dashboard (SpecDebounce,           *)
(* SpecDashboard), the handles AuthProvider instances keep on window       *)
(* (SpecProviders), elasticSearch and multiMatchSearch (SpecSearch) and    *)
(* highlightMatches (SpecHighlight), all of frontend/src/utils/            *)
(* elasticSearch.js and frontend/src/components/Dashboard.js; and single   *)
(* calls of calculateRelevanceScore (SpecScore), levenshteinDistance       *)
(* (SpecDistance), fuzzyMatch (SpecFuzzy), getSearchSuggestions            *)
(* (SpecSuggest) and of every entry point with absent input (SpecEntry).   *)
(* The tasks: the routes of backend/routes/tasks.js, the requests of       *)
(* Dashboard in flight with the handler that awaits each (SpecTasks), the  *)
(* task mail automation of Dashboard.js with its interval, its runs and    *)
(* their mails (SpecAutomation, SpecHistory) and single calls of           *)
(* checkTasksAndNotify (SpecNotify).  SpecContext is the session with      *)
(* updateUser, SpecLeftover the session of a page that finds one stored,   *)
(* SpecDebounceFair the hook with timers that fire when they are due.      *)
(* A specification leaves the variables of the other parts as they start.  *)
(***************************************************************************)
EXTENDS Integers, Sequences, FiniteSets, TLC

VARIABLES
  now,              \* the wall clock read by Date.now()
  storage,          \* window.sessionStorage: key -> stored item
  user,             \* useState(null)
  isAuthenticated,  \* useState(false)
  loading,          \* useState(true)
  sessionExpiring,  \* useState(false)
  sessionTimeLeft,  \* useState(null)
  mounted,          \* the mount effect has run: listeners and interval are registered
  capturedAuth,     \* isAuthenticated as closed over by handleActivity and the interval callback
  capturedExpiring, \* sessionExpiring as closed over by the interval callback
  nextCheck,        \* the time the setInterval callback is next due
  pendingLogins,    \* setTimeout callbacks of Login.handleSubmit not yet fired
  gapFree,          \* history: no two consecutive login/extension events of this session were EXPIRY_TIME apart
  last,             \* history: the handler that ran last, what it returned, and
                    \* (login, logout) how many logins in a row it ends or follows
  \* --- useDebounce (utils/elasticSearch.js), as used by Dashboard
  clock,            \* the time setTimeout measures, in units of 100 ms
  value,            \* the hook's argument `value` (Dashboard: searchQuery)
  delay,            \* the hook's argument `delay`
  debouncedValue,   \* useState(value)
  timers,           \* the browser's pending setTimeout callbacks of the hook
  handler,          \* the timeout the cleanup of the current effect holds
  hookMounted,      \* the component that uses the hook is mounted
  lastChange,       \* history: the time the effect last ran (mount, change of value or delay)
  emissions,        \* history: timer callbacks run since the effect last ran
  burst,            \* history: the runs of the effect that followed one another by less than the delay
  hookLast,         \* history: the hook step taken last
  \* --- Dashboard search effect (components/Dashboard.js)
  searchDue,        \* the search/filter effect is scheduled: its dependencies changed
  searched,         \* history: the last run of the effect
  \* --- AuthProvider instances and the handles they keep on window
  providers,        \* provider instance -> the handle of its mount effect, NoHandle when unmounted
  listeners,        \* window's event listeners: <<event, handle of the handleActivity closure>>
  intervals,        \* the setInterval callbacks that are active, by handle
  windowActivityTracking,   \* window._activityTracking.handler
  windowSessionMonitoring,  \* window._sessionMonitoring
  nextHandle,       \* the next closure / interval id to be created
  provLast,         \* history: the provider step taken last and the handles of the callbacks it ran
  \* --- elasticSearch and multiMatchSearch (utils/elasticSearch.js)
  heap,             \* the arrays that exist; the first is the array of tasks the caller passes
  given,            \* history: the array of tasks as it was when the caller passed it
  sQuery,           \* the argument `query`
  sOptions,         \* the argument `options` of elasticSearch
  sWeights,         \* the argument `fieldWeights` of multiMatchSearch
  sResults,         \* the array that is returned
  called,           \* the function that was called
  \* --- highlightMatches (utils/elasticSearch.js)
  hlText,           \* the argument `text`
  hlQuery,          \* the argument `query`
  hlResult,         \* what is returned
  hlCalled,         \* the function was called
  \* --- the other functions of utils/elasticSearch.js, called on their own
  fn,               \* the function that was called, "none" before the call
  fnArgs,           \* the arguments of the call
  fnResult,         \* what is returned
  \* --- the tasks: backend (backend/routes/tasks.js), requests, Dashboard
  db,               \* the Task collection of the backend
  nextId,           \* the _id the next created document gets
  answered,         \* history: task id -> toggle requests the backend has answered
  rewritten,        \* history: the ids of the tasks a PUT or DELETE has written
  requests,         \* the requests of Dashboard in flight, with their handlers' closures
  issued,           \* the number of requests Dashboard has issued
  dashboardMounted, \* Dashboard is mounted
  dashboardTasks,   \* Dashboard's useState([]): tasks
  automationEnabled,\* Dashboard's useState(true): automationEnabled
  failed,           \* history: a request of Dashboard has failed
  \* --- task mail automation (services/taskMailAutomation.js)
  intervalOn,       \* the setInterval of setupTaskAutomation is active
  getTasks,         \* the tasks the closure () => tasks passed to setupTaskAutomation returns
  runs,             \* the runs of checkTasksAndNotify that wait for a mail to be sent
  started,          \* the number of checks made
  lastCheck,        \* history: the check made last, the tasks it examined and the tasks of Dashboard then
  notificationHistory, \* let notificationHistory = []: the mails, by the order they were sent in
  sent,             \* the number of mails sent
  cleared,          \* history: the number of mails sent when the history was last cleared
  lastSend          \* history: the mail sent last

vars == <<now, storage, user, isAuthenticated, loading, sessionExpiring,
          sessionTimeLeft, mounted, capturedAuth, capturedExpiring, nextCheck,
          pendingLogins, gapFree, last>>

hookVars == <<clock, value, delay, debouncedValue, timers, handler, hookMounted,
              lastChange, emissions, burst, hookLast>>

dashVars == <<searchDue, searched>>

provVars == <<providers, listeners, intervals, windowActivityTracking,
              windowSessionMonitoring, nextHandle, provLast>>

searchVars == <<heap, given, sQuery, sOptions, sWeights, sResults, called>>

hlVars == <<hlText, hlQuery, hlResult, hlCalled>>

fnVars == <<fn, fnArgs, fnResult>>

backendVars == <<db, nextId, answered, rewritten>>

requestVars == <<requests, issued>>

viewVars == <<dashboardMounted, dashboardTasks, automationEnabled, failed>>

schedulerVars == <<intervalOn, getTasks, runs, started, lastCheck>>

mailVars == <<notificationHistory, sent, cleared, lastSend>>

taskVars == <<backendVars, requestVars, viewVars, schedulerVars, mailVars>>

\* What neither the session, the hook nor the search effect of Dashboard owns.
others == <<provVars, searchVars, hlVars, fnVars, taskVars>>

\* ------------------------------------------------------------ constants

EXPIRY_TIME == 30

WARNING_TIME == 5

CHECK_INTERVAL == 1

\* The horizon of the clock.
MaxTime == 31

\* The most Login submissions whose timers are pending at once.
MaxPending == 2

\* SESSION_CONFIG.STORAGE_KEYS
STORAGE_KEYS == {"task_manager_user", "task_manager_token", "task_manager_auth",
                 "task_manager_timestamp", "task_manager_last_activity"}

\* The keys Login.js writes and clearSession removes "for backward compatibility".
LegacyKeys == {"user", "isAuthenticated"}

AllKeys == STORAGE_KEYS \cup LegacyKeys

\* ------------------------------------------------------------ stored items
\* Every item is a record of one shape, so that any two can be compared.

\* getItem of a key that is not stored
Null == [k |-> "null", a |-> 0, b |-> 0]

\* n.toString()
NumStr(n) == [k |-> "num", a |-> n, b |-> 0]

\* the string 'true'
TrueStr == [k |-> "true", a |-> 0, b |-> 0]

\* JSON.stringify(userData)
UserJson == [k |-> "userjson", a |-> 0, b |-> 0]

\* a non-empty string that is no number, no JSON and no token
Junk == [k |-> "junk", a |-> 0, b |-> 0]

\* header.payload.signature with payload {iat, exp}
Jwt(iat, exp) == [k |-> "jwt", a |-> iat, b |-> exp]

\* a string that does not split into three parts
JwtTwoParts == [k |-> "jwt2", a |-> 0, b |-> 0]

\* three parts, the second of which atob/JSON.parse rejects
JwtBadPayload == [k |-> "jwtbad", a |-> 0, b |-> 0]

\* !value, for a string or null
Falsy(v) == v.k = "null"

\* parseInt(value): a number, or NaN
ParseInt(v) == IF v.k = "num" THEN [nan |-> FALSE, n |-> v.a] ELSE [nan |-> TRUE, n |-> 0]

\* The user profile held in React state; "none" is null.
NoUser == "none"

DemoUser == "demo"

\* sessionTimeLeft = null
NoTime == [set |-> FALSE, nan |-> FALSE, n |-> 0]

EmptyStorage == [key \in AllKeys |-> Null]

Max(a, b) == IF a > b THEN a ELSE b

\* The clock can pass to the next minute: the interval callback, once due, runs
\* before it does.
ClockCanTick == now < MaxTime /\ (mounted => now < nextCheck)

\* The values k successive Date.now() reads of one handler can return: the
\* minute can change between two of them.
Reads(k) == {r \in [1..k -> now..(IF ClockCanTick THEN now + 1 ELSE now)] :
               \A i \in 1..(k - 1) : r[i] <= r[i + 1]}

\* ------------------------------------------------------------ AuthContext.js

\* generateToken: iat and exp come from two reads of the clock
generateToken(tIat, tExp) == Jwt(tIat, tExp + EXPIRY_TIME)

\* decodeToken: the payload, or null
decodeToken(token) ==
  IF token.k = "jwt" THEN [null |-> FALSE, iat |-> token.a, exp |-> token.b]
  ELSE [null |-> TRUE, iat |-> 0, exp |-> 0]

\* Date.now() > payload.exp
TokenExpired(t, exp) == t > exp

\* timeSinceActivity > SESSION_CONFIG.EXPIRY_TIME; false when timeSinceActivity is NaN
InactivityExpired(t, la) == ~la.nan /\ t - la.n > EXPIRY_TIME

\* isSessionValid, its two Date.now() reads returning t1 and t2
isSessionValid(st, t1, t2) ==
  LET token == st["task_manager_token"]
      lastActivity == st["task_manager_last_activity"]
      payload == decodeToken(token)
  IN  IF Falsy(token) \/ Falsy(lastActivity) THEN FALSE
      ELSE IF payload.null THEN FALSE
      ELSE IF TokenExpired(t1, payload.exp) THEN FALSE
      ELSE IF InactivityExpired(t2, ParseInt(lastActivity)) THEN FALSE
      ELSE TRUE

\* updateLastActivity, had it issued a new token as well
updateLastActivityReissuingToken(st, t) ==
  [st EXCEPT !["task_manager_last_activity"] = NumStr(t),
             !["task_manager_token"] = generateToken(t, t)]

\* updateLastActivity
updateLastActivity(st, t) == [st EXCEPT !["task_manager_last_activity"] = NumStr(t)]

\* sessionStorage.removeItem(key) for every key of keys
RemoveItems(st, keys) == [key \in AllKeys |-> IF key \in keys THEN Null ELSE st[key]]

\* clearSession, had it left the legacy keys in place
clearSessionKeepingLegacyKeys(st) == RemoveItems(st, STORAGE_KEYS)

\* clearSession: the five STORAGE_KEYS, then the two legacy keys
clearSession(st) == RemoveItems(RemoveItems(st, STORAGE_KEYS), LegacyKeys)

\* getSessionInfo, its Date.now() returning t: null, or {timeUntilExpiry, isExpiring}
getSessionInfo(st, t) ==
  LET lastActivity == st["task_manager_last_activity"]
      token == st["task_manager_token"]
      payload == decodeToken(token)
      la == ParseInt(lastActivity)
      timeUntilExpiry == EXPIRY_TIME - (t - la.n)
      NoInfo == [null |-> TRUE, nan |-> FALSE, timeUntilExpiry |-> 0, isExpiring |-> FALSE]
  IN  IF Falsy(lastActivity) \/ Falsy(token) THEN NoInfo
      ELSE IF payload.null THEN NoInfo     \* payload.iat throws, caught
      ELSE IF la.nan
        THEN [null |-> FALSE, nan |-> TRUE, timeUntilExpiry |-> 0, isExpiring |-> FALSE]
        ELSE [null |-> FALSE, nan |-> FALSE,
              timeUntilExpiry |-> Max(0, timeUntilExpiry),
              isExpiring |-> timeUntilExpiry <= WARNING_TIME]

\* JSON.parse(storedUser) returns (it throws on anything but the stored profile)
JsonParses(v) == v.k = "userjson"

\* checkSession, its three Date.now() reads (two in isSessionValid, one in
\* updateLastActivity) returning r[1], r[2], r[3]: the storage and React state it leaves
checkSession(st, u, auth, r) ==
  LET storedUser == st["task_manager_user"]
      isAuth == st["task_manager_auth"]
      token == st["task_manager_token"]
  IN  IF ~Falsy(storedUser) /\ isAuth = TrueStr /\ ~Falsy(token)
      THEN IF isSessionValid(st, r[1], r[2])
           THEN IF JsonParses(storedUser)
                THEN [storage |-> updateLastActivity(st, r[3]), user |-> DemoUser,
                      isAuthenticated |-> TRUE, outcome |-> "restored"]
                ELSE [storage |-> clearSession(st), user |-> u,
                      isAuthenticated |-> auth, outcome |-> "caught"]
           ELSE [storage |-> clearSession(st), user |-> u,
                 isAuthenticated |-> auth, outcome |-> "expired"]
      ELSE [storage |-> st, user |-> u, isAuthenticated |-> auth, outcome |-> "none"]

\* login: the storage it writes; generateToken reads the clock at r[1] (iat),
\* r[2] (exp) and r[3] (signature), login itself at r[4] (timestamp)
loginStorage(st, r) ==
  [st EXCEPT !["task_manager_user"] = UserJson,
             !["task_manager_auth"] = TrueStr,
             !["task_manager_token"] = generateToken(r[1], r[2]),
             !["task_manager_timestamp"] = NumStr(r[4]),
             !["task_manager_last_activity"] = NumStr(r[4])]

\* Login.handleSubmit's timer callback, before it calls onLogin
legacyLoginStorage(st) ==
  [st EXCEPT !["user"] = UserJson, !["isAuthenticated"] = TrueStr]

\* Date.now() - parseInt(lastActivity), for a stored number
SinceActivity(st, t) == t - ParseInt(st["task_manager_last_activity"]).n

Op(name, ret, n) == [op |-> name, ret |-> ret, n |-> n]

\* ------------------------------------------------------------ actions

\* A page load in a browsing context whose session storage is empty.
Init ==
  /\ now = 0
  /\ storage = EmptyStorage
  /\ user = NoUser
  /\ isAuthenticated = FALSE
  /\ loading = TRUE
  /\ sessionExpiring = FALSE
  /\ sessionTimeLeft = NoTime
  /\ mounted = FALSE
  /\ capturedAuth = FALSE
  /\ capturedExpiring = FALSE
  /\ nextCheck = 0
  /\ pendingLogins = 0
  /\ gapFree = TRUE
  /\ last = Op("load", TRUE, 0)

\* One minute passes. Callbacks run when they are due, before the clock passes
\* a further minute: the mount effect of a loaded page, the interval callback
\* at nextCheck, the 1000 ms timers of Login.
Tick ==
  /\ ClockCanTick
  /\ mounted
  /\ pendingLogins = 0
  /\ now' = now + 1
  /\ last' = Op("tick", TRUE, 0)
  /\ UNCHANGED <<storage, user, isAuthenticated, loading, sessionExpiring,
                 sessionTimeLeft, mounted, capturedAuth, capturedExpiring,
                 nextCheck, pendingLogins, gapFree>>

\* The mount effect of AuthProvider: checkSession(); setupActivityTracking();
\* setupSessionMonitoring(). The callbacks it registers close over the state of
\* the render the effect belongs to.
Mount ==
  /\ ~mounted
  /\ \E r \in Reads(3) :
       LET c == checkSession(storage, user, isAuthenticated, r) IN
       /\ storage' = c.storage
       /\ user' = c.user
       /\ isAuthenticated' = c.isAuthenticated
       /\ loading' = FALSE
       /\ now' = r[3]
       /\ nextCheck' = r[3] + CHECK_INTERVAL
       /\ gapFree' = IF c.outcome = "restored"
                        THEN gapFree /\ SinceActivity(storage, r[3]) < EXPIRY_TIME
                        ELSE TRUE
       /\ last' = Op("checkSession", c.outcome = "restored",
                     IF c.outcome = "expired" THEN 1 ELSE 0)
  /\ mounted' = TRUE
  /\ capturedAuth' = isAuthenticated
  /\ capturedExpiring' = sessionExpiring
  /\ UNCHANGED <<sessionExpiring, sessionTimeLeft, pendingLogins>>

\* Login.handleSubmit with a valid form: a 1000 ms timer is started. With the demo
\* credentials its callback logs in; with any others it only shows an error.
Submit ==
  /\ ~loading /\ ~isAuthenticated          \* AppContent renders <Login/>
  /\ \E credentials \in {"demo", "other"} :
       pendingLogins' = IF credentials = "demo" /\ pendingLogins < MaxPending
                        THEN pendingLogins + 1 ELSE pendingLogins
  /\ last' = Op("submit", TRUE, 0)
  /\ UNCHANGED <<now, storage, user, isAuthenticated, loading, sessionExpiring,
                 sessionTimeLeft, mounted, capturedAuth, capturedExpiring,
                 nextCheck, gapFree>>

\* The timer callback of Login.handleSubmit: the legacy keys are written and
\* onLogin(userData), which is login, is called.
LoginTimer ==
  /\ pendingLogins > 0
  /\ pendingLogins' = pendingLogins - 1
  /\ \E r \in Reads(4) :
       /\ storage' = loginStorage(legacyLoginStorage(storage), r)
       /\ now' = r[4]
  /\ user' = DemoUser
  /\ isAuthenticated' = TRUE
  /\ sessionExpiring' = FALSE
  /\ gapFree' = TRUE
  /\ last' = Op("login", TRUE, IF last.op = "login" THEN 2 ELSE 1)
  /\ UNCHANGED <<loading, sessionTimeLeft, mounted, capturedAuth,
                 capturedExpiring, nextCheck>>

\* logout, called through the context (Dashboard.handleLogout)
Logout ==
  /\ ~loading
  /\ storage' = clearSession(storage)
  /\ user' = NoUser
  /\ isAuthenticated' = FALSE
  /\ sessionExpiring' = FALSE
  /\ sessionTimeLeft' = NoTime
  /\ gapFree' = TRUE
  /\ last' = Op("logout", TRUE, IF last.op = "login" THEN last.n ELSE 0)
  /\ UNCHANGED <<now, loading, mounted, capturedAuth, capturedExpiring,
                 nextCheck, pendingLogins>>

\* extendSession, called through the context (SessionInfo.handleExtendSession);
\* the context value of every render carries that render's isAuthenticated
ExtendSession ==
  /\ ~loading
  /\ IF ~isAuthenticated
     THEN /\ last' = Op("extendSession", FALSE, 0)
          /\ UNCHANGED <<now, storage, sessionExpiring, gapFree>>
     ELSE \E r \in Reads(1) :
          /\ storage' = updateLastActivity(storage, r[1])
          /\ sessionExpiring' = FALSE
          /\ now' = r[1]
          /\ gapFree' = (gapFree /\ SinceActivity(storage, r[1]) < EXPIRY_TIME)
          /\ last' = Op("extendSession", TRUE, 0)
  /\ UNCHANGED <<user, isAuthenticated, loading, sessionTimeLeft, mounted,
                 capturedAuth, capturedExpiring, nextCheck, pendingLogins>>

\* handleActivity, the listener setupActivityTracking registers for mousedown,
\* keydown, scroll, touchstart and click
Activity ==
  /\ mounted
  /\ \E event \in {"mousedown", "keydown", "scroll", "touchstart", "click"} :
       IF capturedAuth
       THEN \E r \in Reads(1) :
            /\ storage' = updateLastActivity(storage, r[1])
            /\ now' = r[1]
       ELSE UNCHANGED <<now, storage>>
  /\ last' = Op("activity", capturedAuth, 0)
  /\ UNCHANGED <<user, isAuthenticated, loading, sessionExpiring,
                 sessionTimeLeft, mounted, capturedAuth, capturedExpiring,
                 nextCheck, pendingLogins, gapFree>>

\* updateUser, called through the context: { ...user, ...userData } is stored as
\* the profile and kept in state, whatever isAuthenticated is. The profiles are
\* not told apart: userData holds fields of the demo profile.
UpdateUser ==
  /\ ~loading
  /\ \E userData \in {DemoUser}, r \in Reads(1) :
       /\ storage' = updateLastActivity(
                        [storage EXCEPT !["task_manager_user"] = UserJson], r[1])
       /\ user' = userData
       /\ now' = r[1]
       /\ gapFree' = IF isAuthenticated
                        THEN gapFree /\ SinceActivity(storage, r[1]) < EXPIRY_TIME
                        ELSE gapFree
  /\ last' = Op("updateUser", TRUE, 0)
  /\ UNCHANGED <<isAuthenticated, loading, sessionExpiring, sessionTimeLeft,
                 mounted, capturedAuth, capturedExpiring, nextCheck, pendingLogins>>

\* The interval callback, had it no test of isAuthenticated.
NoGuard == FALSE

\* if (!isAuthenticated) return; in the interval callback
MonitorGuard == ~capturedAuth

\* The callback setupSessionMonitoring passes to setInterval. getSessionInfo
\* reads the clock at r[1], isSessionValid at r[2] and r[3].
MonitorCheck ==
  /\ mounted
  /\ now >= nextCheck
  /\ nextCheck' = nextCheck + CHECK_INTERVAL
  /\ IF MonitorGuard
     THEN /\ last' = Op("monitor", FALSE, 0)
          /\ UNCHANGED <<now, storage, user, isAuthenticated, sessionExpiring,
                         sessionTimeLeft, gapFree>>
     ELSE \E r \in Reads(3) :
          LET sessionInfo == getSessionInfo(storage, r[1]) IN
          IF sessionInfo.null
          THEN /\ now' = r[1]
               /\ last' = Op("monitor", FALSE, 0)
               /\ UNCHANGED <<storage, user, isAuthenticated, sessionExpiring,
                              sessionTimeLeft, gapFree>>
          ELSE IF ~isSessionValid(storage, r[2], r[3])
          THEN \* logout(), then alert(...)
               /\ now' = r[3]
               /\ storage' = clearSession(storage)
               /\ user' = NoUser
               /\ isAuthenticated' = FALSE
               /\ sessionExpiring' = FALSE
               /\ sessionTimeLeft' = NoTime
               /\ gapFree' = TRUE
               /\ last' = Op("monitor", TRUE, 1)
          ELSE /\ now' = r[3]
               /\ sessionTimeLeft' = [set |-> TRUE, nan |-> sessionInfo.nan,
                                      n |-> sessionInfo.timeUntilExpiry]
               /\ sessionExpiring' = IF sessionInfo.isExpiring /\ ~capturedExpiring
                                     THEN TRUE ELSE sessionExpiring
               /\ last' = Op("monitor", TRUE, 0)
               /\ UNCHANGED <<storage, user, isAuthenticated, gapFree>>
  /\ UNCHANGED <<loading, mounted, capturedAuth, capturedExpiring, pendingLogins>>

\* The page is reloaded: React state is created anew, timers and listeners of
\* the old page are gone, session storage is kept.
Reload ==
  /\ user' = NoUser
  /\ isAuthenticated' = FALSE
  /\ loading' = TRUE
  /\ sessionExpiring' = FALSE
  /\ sessionTimeLeft' = NoTime
  /\ mounted' = FALSE
  /\ capturedAuth' = FALSE
  /\ capturedExpiring' = FALSE
  /\ nextCheck' = 0
  /\ pendingLogins' = 0
  /\ last' = Op("load", TRUE, 0)
  /\ UNCHANGED <<now, storage, gapFree>>

\* What a page may find in session storage when it loads: any of the items
\* below under any key (storage is shared by every script of the origin and
\* outlives reloads), a session issued at time 0 among them.
StoredContents ==
  {st \in [AllKeys -> {Null, Junk, TrueStr, UserJson, NumStr(0), JwtTwoParts,
                       JwtBadPayload, Jwt(0, EXPIRY_TIME)}] :
     /\ st["task_manager_user"] \in {Null, UserJson, Junk}
     /\ st["task_manager_auth"] \in {Null, TrueStr, Junk}
     /\ st["task_manager_token"] \in {Null, JwtTwoParts, JwtBadPayload, Jwt(0, EXPIRY_TIME)}
     /\ st["task_manager_timestamp"] \in {Null, NumStr(0)}
     /\ st["task_manager_last_activity"] \in {Null, Junk, NumStr(0)}
     /\ st["user"] \in {Null, UserJson}
     /\ st["isAuthenticated"] = (IF st["user"] = Null THEN Null ELSE TrueStr)}

\* A page load in a browsing context whose session storage holds anything.
InitStored ==
  /\ now = 0
  /\ storage \in StoredContents
  /\ user = NoUser
  /\ isAuthenticated = FALSE
  /\ loading = TRUE
  /\ sessionExpiring = FALSE
  /\ sessionTimeLeft = NoTime
  /\ mounted = FALSE
  /\ capturedAuth = FALSE
  /\ capturedExpiring = FALSE
  /\ nextCheck = 0
  /\ pendingLogins = 0
  /\ gapFree = TRUE
  /\ last = Op("load", TRUE, 0)

\* ------------------------------------------------------------ useDebounce
\* Time is counted in units of 100 ms on a clock of its own: the session above
\* counts minutes. A re-render with a changed dependency runs the cleanup of
\* the previous effect and then the effect, in one commit.

\* useDebounce(searchQuery, 300), and the hook's default delay
DEBOUNCE_DELAY == 3

\* The horizon of the clock of the timers.
MaxClock == 8

\* The longest burst of changes that is counted.
MaxBurst == 3

\* The delays a component passes to the hook.
Delays == {DEBOUNCE_DELAY - 1, DEBOUNCE_DELAY}

\* The values of the input the hook is given.
Queries == {"", "a", "ab"}

setTimeoutDueAtOnce(v, d) == [due |-> clock, value |-> v, dead |-> FALSE]

\* A timeout whose callback closes over the value of the render before.
setTimeoutOfPreviousValue(v, d) == [due |-> clock + d, value |-> value, dead |-> FALSE]

\* setTimeout(() => { setDebouncedValue(value); }, delay): the callback closes
\* over the value, and the state setter, of the component instance the effect
\* belongs to; `dead` tells that this instance has been unmounted.
setTimeout(v, d) == [due |-> clock + d, value |-> v, dead |-> FALSE]

\* The timeouts ts once the component instance that set them is unmounted.
Orphaned(ts) == {[t EXCEPT !.dead = TRUE] : t \in ts}

clearTimeoutLeavingTimer(ts, h) == ts

\* clearTimeout(handler)
clearTimeout(ts, h) == ts \ h

\* The state of the hook before its component is mounted.
HookIdle ==
  /\ clock = 0
  /\ value = ""
  /\ delay = DEBOUNCE_DELAY
  /\ debouncedValue = ""
  /\ timers = {}
  /\ handler = {}
  /\ hookMounted = FALSE
  /\ lastChange = 0
  /\ emissions = 0
  /\ burst = 0
  /\ hookLast = "none"

\* The effect of useDebounce for the render with value v and delay d, after the
\* cleanup of the effect of the previous render, if there was one.
useDebounceEffect(v, d) ==
  /\ handler' = {setTimeout(v, d)}
  /\ timers' = clearTimeout(timers, handler) \cup {setTimeout(v, d)}
  /\ lastChange' = clock
  /\ emissions' = 0
  /\ burst' = IF hookMounted /\ clock - lastChange < delay
                THEN (IF burst < MaxBurst THEN burst + 1 ELSE burst)
                ELSE 1

\* The component mounts with value v and delay d: useState(value), the effect.
HookMount(v, d) ==
  /\ ~hookMounted
  /\ hookMounted' = TRUE
  /\ value' = v
  /\ delay' = d
  /\ debouncedValue' = v
  /\ useDebounceEffect(v, d)
  /\ hookLast' = "mount"
  /\ UNCHANGED clock

\* The component re-renders with another value.
SetValue ==
  /\ hookMounted
  /\ \E v \in Queries \ {value} :
       /\ value' = v
       /\ useDebounceEffect(v, delay)
  /\ hookLast' = "value"
  /\ UNCHANGED <<clock, delay, debouncedValue, hookMounted>>

\* The component re-renders with another delay.
SetDelay ==
  /\ hookMounted
  /\ \E d \in Delays \ {delay} :
       /\ delay' = d
       /\ useDebounceEffect(value, d)
  /\ hookLast' = "delay"
  /\ UNCHANGED <<clock, value, debouncedValue, hookMounted>>

\* A pending timeout is due and the browser runs its callback, no earlier than
\* the delay it was set with: setDebouncedValue(value). React drops a state
\* update of a component instance that is no longer mounted.
TimerFires ==
  /\ \E t \in timers :
       /\ clock >= t.due
       /\ timers' = timers \ {t}
       /\ debouncedValue' = IF t.dead THEN debouncedValue ELSE t.value
  /\ emissions' = IF emissions < 2 THEN emissions + 1 ELSE emissions
  /\ hookLast' = "fire"
  /\ UNCHANGED <<clock, value, delay, handler, hookMounted, lastChange, burst>>

HookUnmountWithoutCleanup ==
  /\ hookMounted
  /\ hookMounted' = FALSE
  /\ hookLast' = "unmount"
  /\ UNCHANGED <<clock, value, delay, debouncedValue, timers, handler,
                 lastChange, emissions, burst>>

\* The component unmounts: the cleanup of the last effect.
HookUnmount ==
  /\ hookMounted
  /\ hookMounted' = FALSE
  /\ timers' = Orphaned(clearTimeout(timers, handler))
  /\ handler' = {}
  /\ hookLast' = "unmount"
  /\ UNCHANGED <<clock, value, delay, debouncedValue, lastChange, emissions, burst>>

\* 100 ms pass. A timeout that is due may still be waiting for its turn.
ClockTick ==
  /\ clock < MaxClock
  /\ clock' = clock + 1
  /\ hookLast' = "tick"
  /\ UNCHANGED <<value, delay, debouncedValue, timers, handler, hookMounted,
                 lastChange, emissions, burst>>

\* ------------------------------------------------------------ Dashboard

\* The state of the search effect before Dashboard is mounted.
DashIdle ==
  /\ searchDue = FALSE
  /\ searched = [ran |-> FALSE, auth |-> FALSE, query |-> ""]

DashboardAlwaysShown(l, a) == TRUE

\* AppContent: <Dashboard/> is rendered when loading is over and the user is
\* authenticated, <Login/> or the spinner otherwise.
DashboardShown(l, a) == ~l /\ a

\* The search/filter effect of Dashboard, dependencies [tasks, filters,
\* debouncedSearchQuery]: it searches for debouncedSearchQuery and applies the
\* result with setFilteredTasks.
SearchEffect ==
  /\ hookMounted
  /\ searchDue
  /\ searchDue' = FALSE
  /\ searched' = [ran |-> TRUE, auth |-> isAuthenticated, query |-> debouncedValue]
  /\ UNCHANGED vars
  /\ UNCHANGED hookVars
  /\ UNCHANGED others

\* The commit that follows a change of the authentication state: Dashboard is
\* mounted with searchQuery '' and its effects are scheduled, or unmounted and
\* its effects cleaned up.
AppContent ==
  IF DashboardShown(loading', isAuthenticated') /\ ~hookMounted
    THEN /\ HookMount("", DEBOUNCE_DELAY)
         /\ searchDue' = TRUE
         /\ UNCHANGED searched
    ELSE IF ~DashboardShown(loading', isAuthenticated') /\ hookMounted
      THEN /\ HookUnmount
           /\ searchDue' = FALSE
           /\ UNCHANGED searched
      ELSE UNCHANGED <<hookVars, dashVars>>

\* The page is unloaded: its components and its timers are gone.
PageUnload ==
  /\ hookMounted' = FALSE
  /\ timers' = {}
  /\ handler' = {}
  /\ searchDue' = FALSE
  /\ hookLast' = IF hookMounted THEN "unmount" ELSE hookLast
  /\ UNCHANGED <<clock, value, delay, debouncedValue, lastChange, emissions,
                 burst, searched>>

\* A step of the hook inside Dashboard: a changed debouncedSearchQuery
\* schedules the search effect.
InDashboard(HookStep) ==
  /\ HookStep
  /\ searchDue' = (searchDue \/ (hookMounted /\ debouncedValue' # debouncedValue))
  /\ UNCHANGED searched
  /\ UNCHANGED vars
  /\ UNCHANGED others

\* ------------------------------------------------------------ provider instances
\* setupActivityTracking, setupSessionMonitoring and cleanup of several
\* AuthProvider instances in one window. Every run of the mount effect creates
\* a handleActivity closure and an interval; both are named by one handle.

\* The most runs of the mount effect.
MaxMounts == 4

\* The most provider instances in the tree.
MaxProviders == 2

ProviderIds == 1..MaxProviders

NoHandle == 0

\* activityEvents
activityEvents == {"mousedown", "keydown", "scroll", "touchstart", "click"}

ProvOp(name, hs) == [op |-> name, handles |-> hs]

\* No AuthProvider is mounted and window carries nothing.
ProvIdle ==
  /\ providers = [i \in ProviderIds |-> NoHandle]
  /\ listeners = {}
  /\ intervals = {}
  /\ windowActivityTracking = NoHandle
  /\ windowSessionMonitoring = NoHandle
  /\ nextHandle = 1
  /\ provLast = ProvOp("none", {})

\* setupActivityTracking of the instance whose closure is h
setupActivityTracking(h) ==
  /\ listeners' = listeners \cup {<<e, h>> : e \in activityEvents}
  /\ windowActivityTracking' = h

\* setupSessionMonitoring of the instance whose interval is h
setupSessionMonitoring(h) ==
  /\ intervals' = intervals \cup {h}
  /\ windowSessionMonitoring' = h

\* cleanup: what window._activityTracking and window._sessionMonitoring name
\* is removed; the two properties are left as they are.
cleanup ==
  /\ listeners' = IF windowActivityTracking # NoHandle
                    THEN listeners \ {<<e, windowActivityTracking>> : e \in activityEvents}
                    ELSE listeners
  /\ intervals' = IF windowSessionMonitoring # NoHandle
                    THEN intervals \ {windowSessionMonitoring}
                    ELSE intervals
  /\ UNCHANGED <<windowActivityTracking, windowSessionMonitoring>>

\* The mount effect of provider instance i.
ProviderMount(i) ==
  /\ providers[i] = NoHandle
  /\ nextHandle <= MaxMounts
  /\ setupActivityTracking(nextHandle)
  /\ setupSessionMonitoring(nextHandle)
  /\ providers' = [providers EXCEPT ![i] = nextHandle]
  /\ nextHandle' = nextHandle + 1
  /\ provLast' = ProvOp("mount", {nextHandle})

\* Provider instance i is torn down: the cleanup of its mount effect.
ProviderUnmount(i) ==
  /\ providers[i] # NoHandle
  /\ cleanup
  /\ providers' = [providers EXCEPT ![i] = NoHandle]
  /\ provLast' = ProvOp("unmount", {providers[i]})
  /\ UNCHANGED nextHandle

\* The user does something: window dispatches event e to its listeners.
ActivityEvent(e) ==
  /\ provLast' = ProvOp("activity", {l[2] : l \in {m \in listeners : m[1] = e}})
  /\ UNCHANGED <<providers, listeners, intervals, windowActivityTracking,
                 windowSessionMonitoring, nextHandle>>

\* The interval h is due and its callback runs.
IntervalFires(h) ==
  /\ h \in intervals
  /\ provLast' = ProvOp("interval", {h})
  /\ UNCHANGED <<providers, listeners, intervals, windowActivityTracking,
                 windowSessionMonitoring, nextHandle>>

\* The handles of the provider instances that are mounted.
LiveHandles == {providers[i] : i \in ProviderIds} \ {NoHandle}

\* ------------------------------------------------------------ strings
\* A string is the sequence of its characters, each a one-letter string; the
\* markers <mark> and </mark> of a highlighted string are elements of their own.
\* undefined is a sequence that is no string. Offsets count from 0, as in the
\* source.

\* The characters texts and queries are made of.
Alphabet == {"a", "b", "A", " "}

Undefined == <<"undefined">>

\* The longest text given to highlightMatches.
MaxTextLen == 3

\* The longest query given to highlightMatches.
MaxQueryLen == 2

\* The strings of at most n characters.
Strings(n) == UNION {[1..k -> Alphabet] : k \in 0..n}

IsEmptyString(x) == x = <<>>

\* !x for a string, an array or undefined
Not(x) == x = Undefined \/ x = <<>>

LowerChar(c) == IF c = "A" THEN "a" ELSE c

\* String.prototype.toLowerCase
toLowerCase(s) == [i \in 1..Len(s) |-> LowerChar(s[i])]

RECURSIVE trimStart(_)
trimStart(s) == IF s = <<>> \/ s[1] # " " THEN s ELSE trimStart(Tail(s))

RECURSIVE trimEnd(_)
trimEnd(s) ==
  IF s = <<>> \/ s[Len(s)] # " " THEN s ELSE trimEnd(SubSeq(s, 1, Len(s) - 1))

\* String.prototype.trim
trim(s) == trimEnd(trimStart(s))

\* String.prototype.substring(a, b), for 0 <= a <= b
substring(s, a, b) ==
  SubSeq(s, (IF a < Len(s) THEN a ELSE Len(s)) + 1, IF b < Len(s) THEN b ELSE Len(s))

\* String.prototype.indexOf(q, from): the first offset at or after `from` where
\* q occurs, -1 when there is none; the empty string occurs at every offset up
\* to the length, and beyond the length at the length.
indexOf(s, q, from) ==
  LET at == {i \in from..(Len(s) - Len(q)) : SubSeq(s, i + 1, i + Len(q)) = q} IN
  IF at # {} THEN CHOOSE i \in at : \A j \in at : i <= j
  ELSE IF q = <<>> THEN Len(s)
  ELSE -1

\* String.prototype.includes
includes(s, q) == indexOf(s, q, 0) # -1

endsWith(s, q) == Len(q) <= Len(s) /\ SubSeq(s, Len(s) - Len(q) + 1, Len(s)) = q

\* String.prototype.startsWith
startsWith(s, q) == Len(q) <= Len(s) /\ SubSeq(s, 1, Len(q)) = q

\* normalizeText
normalizeText(text) == IF Not(text) THEN <<>> ELSE trim(toLowerCase(text))

\* ------------------------------------------------------------ scores
\* A score is an exact fraction n / d with d > 0.

Frac(n, d) == [n |-> n, d |-> d]

FracLess(x, y) == x.n * y.d < y.n * x.d

FracSum(x, y) == Frac(x.n * y.d + y.n * x.d, x.d * y.d)

FracTimes(x, y) == Frac(x.n * y.n, x.d * y.d)

FracFirst(x, y) == x

\* Math.min
FracMin(x, y) == IF FracLess(y, x) THEN y ELSE x

\* calculateRelevanceScore
calculateRelevanceScore(text, query) ==
  LET normalizedText == normalizeText(text)
      normalizedQuery == normalizeText(query)
      base == IF normalizedText = normalizedQuery THEN 100
              ELSE IF startsWith(normalizedText, normalizedQuery) THEN 80
              ELSE IF includes(normalizedText, <<" ">> \o normalizedQuery \o <<" ">>) THEN 60
              ELSE IF includes(normalizedText, normalizedQuery) THEN 40
              ELSE 0
  IN IF normalizedText = <<>> \/ normalizedQuery = <<>> THEN Frac(0, 1)
     ELSE FracMin(Frac(base * Len(normalizedText) + 20 * Len(normalizedQuery),
                       Len(normalizedText)),
                  Frac(100, 1))

\* matchesQuery
matchesQuery(text, query) ==
  LET normalizedText == normalizeText(text)
      normalizedQuery == normalizeText(query)
  IN IF normalizedQuery = <<>> THEN TRUE
     ELSE IF normalizedText = <<>> THEN FALSE
     ELSE includes(normalizedText, normalizedQuery)

\* ------------------------------------------------------------ highlightMatches

\* The loop that finds all occurrences, from startIndex on.
RECURSIVE FindOccurrences(_, _, _, _)
FindOccurrences(text, normalizedText, normalizedQuery, startIndex) ==
  LET index == indexOf(normalizedText, normalizedQuery, startIndex) IN
  IF index = -1 THEN <<>>
  ELSE <<[start |-> index,
          end |-> index + Len(normalizedQuery),
          text |-> substring(text, index, index + Len(normalizedQuery))]>>
       \o FindOccurrences(text, normalizedText, normalizedQuery, index + 1)

MarkedLowered(text, match) ==
  substring(toLowerCase(text), 0, match.start) \o <<"<mark>">>
  \o substring(toLowerCase(text), match.start, match.end) \o <<"</mark>">>
  \o substring(toLowerCase(text), match.end, Len(text))

\* highlighted = before + `<mark>${matchText}</mark>` + after
Marked(text, match) ==
  substring(text, 0, match.start) \o <<"<mark>">>
  \o substring(text, match.start, match.end) \o <<"</mark>">>
  \o substring(text, match.end, Len(text))

\* The loop that builds the highlighted text, from match i down to the first:
\* each turn computes before, matchText and after from `text`.
RECURSIVE BuildHighlighted(_, _, _, _)
BuildHighlighted(text, matches, i, highlighted) ==
  IF i < 1 THEN highlighted
  ELSE BuildHighlighted(text, matches, i - 1, Marked(text, matches[i]))

\* highlightMatches. `returns` is FALSE when the call never returns: the scan
\* for a query that is not empty but normalizes to the empty string finds an
\* occurrence at every turn. The result of the first branch has no matchCount.
highlightMatches(text, query) ==
  IF Not(text) \/ Not(query)
    THEN [returns |-> TRUE, original |-> text, highlighted |-> text,
          matches |-> <<>>, hasMatchCount |-> FALSE, matchCount |-> 0]
  ELSE IF normalizeText(query) = <<>>
    THEN [returns |-> FALSE, original |-> text, highlighted |-> text,
          matches |-> <<>>, hasMatchCount |-> FALSE, matchCount |-> 0]
  ELSE LET matches == FindOccurrences(text, normalizeText(text), normalizeText(query), 0) IN
       [returns |-> TRUE, original |-> text,
        highlighted |-> BuildHighlighted(text, matches, Len(matches), text),
        matches |-> matches, hasMatchCount |-> TRUE, matchCount |-> Len(matches)]

\* What highlightMatches is given before it is called.
HighlightIdle ==
  /\ hlText = <<>>
  /\ hlQuery = <<>>
  /\ hlResult = highlightMatches(<<>>, <<>>)
  /\ hlCalled = FALSE

\* Any text and any query, or none.
HighlightInit ==
  /\ hlText \in Strings(MaxTextLen) \cup {Undefined}
  /\ hlQuery \in Strings(MaxQueryLen) \cup {Undefined}
  /\ hlResult = highlightMatches(<<>>, <<>>)
  /\ hlCalled = FALSE

\* highlightMatches(text, query) is called.
HighlightMatches ==
  /\ ~hlCalled
  /\ hlCalled' = TRUE
  /\ hlResult' = highlightMatches(hlText, hlQuery)
  /\ UNCHANGED <<hlText, hlQuery>>

\* ------------------------------------------------------------ arrays
\* Arrays live on a heap, a sequence of arrays; an array is named by its place
\* on the heap. map and filter put a new array on the heap, sort reorders the
\* array it is called on. An operation gives the heap it leaves; where it makes
\* a new array, that array is the last of the heap.

WrittenToArray(h, r, elements) == Append([h EXCEPT ![r] = elements], elements)

\* What Array.prototype.map and Array.prototype.filter, called on array r, do
\* with the elements they have computed: they return them as a new array.
NewArray(h, r, elements) == Append(h, elements)

RECURSIVE InsertBeforeEqualScores(_, _)
InsertBeforeEqualScores(sorted, x) ==
  IF sorted = <<>> THEN <<x>>
  ELSE IF ~FracLess(x._score, Head(sorted)._score) THEN <<x>> \o sorted
  ELSE <<Head(sorted)>> \o InsertBeforeEqualScores(Tail(sorted), x)

\* The place of x in a sequence sorted by non-increasing score: behind every
\* element whose score is not less than its own.
RECURSIVE InsertByScore(_, _)
InsertByScore(sorted, x) ==
  IF sorted = <<>> THEN <<x>>
  ELSE IF FracLess(Head(sorted)._score, x._score) THEN <<x>> \o sorted
  ELSE <<Head(sorted)>> \o InsertByScore(Tail(sorted), x)

\* sort((a, b) => b._score - a._score) of a sequence: Array.prototype.sort is
\* stable.
RECURSIVE SortByScore(_)
SortByScore(s) ==
  IF s = <<>> THEN <<>>
  ELSE InsertByScore(SortByScore(SubSeq(s, 1, Len(s) - 1)), s[Len(s)])

\* Array.prototype.sort((a, b) => b._score - a._score), in place
ArraySort(h, r) == [h EXCEPT ![r] = SortByScore(h[r])]

\* ------------------------------------------------------------ elasticSearch

\* The most tasks in the array that is searched.
MaxTasks == 2

Task(t, d, p) == [title |-> t, description |-> d, priority |-> p]

\* The tasks that are searched.
SampleTasks ==
  { Task(<<"a", "b">>, <<>>, <<"b">>),
    Task(<<"A", "b", " ">>, <<"b", " ", "a", " ", "b">>, <<"b">>),
    Task(<<"b", "a">>, <<"a">>, <<"b">>),
    Task(Undefined, <<"b", "a", "b">>, <<"a">>),
    Task(<<"b">>, Undefined, <<"a">>) }

\* The queries that are searched for.
SampleQueries == {Undefined, <<" ">>, <<"a">>, <<"A", " ">>, <<"a", "b">>}

\* The options elasticSearch is called with.
SampleOptions ==
  [fields : {<<"title">>, <<"title", "description">>},
   minScore : {Frac(0, 1), Frac(90, 1)},
   sortByRelevance : BOOLEAN,
   includeHighlights : BOOLEAN]

\* const defaultWeights
defaultWeights == <<[field |-> "title", weight |-> Frac(2, 1)],
                    [field |-> "description", weight |-> Frac(1, 1)],
                    [field |-> "priority", weight |-> Frac(3, 2)]>>

\* The fieldWeights multiMatchSearch is called with: none, or one for title.
SampleWeights == {<<>>, <<[field |-> "title", weight |-> Frac(1, 2)]>>}

\* { ...defaultWeights, ...fieldWeights }, as Object.entries lists it
MergedWeights(fieldWeights) ==
  [i \in 1..Len(defaultWeights) |->
     IF \E j \in 1..Len(fieldWeights) : fieldWeights[j].field = defaultWeights[i].field
       THEN fieldWeights[CHOOSE j \in 1..Len(fieldWeights) :
                           fieldWeights[j].field = defaultWeights[i].field]
       ELSE defaultWeights[i]]
  \o SelectSeq(fieldWeights, LAMBDA w :
        \A i \in 1..Len(defaultWeights) : defaultWeights[i].field # w.field)

\* What the callback of map returns for a task that did not match.
NullResult == [null |-> TRUE]

\* fieldValue && matchesQuery(fieldValue, normalizedQuery)
FieldMatches(task, field, query) == ~Not(task[field]) /\ matchesQuery(task[field], query)

RECURSIVE LastScore(_, _, _, _, _)
LastScore(task, fields, normalizedQuery, i, maxScore) ==
  IF i > Len(fields) THEN maxScore
  ELSE LastScore(task, fields, normalizedQuery, i + 1,
                 IF FieldMatches(task, fields[i], normalizedQuery)
                   THEN calculateRelevanceScore(task[fields[i]], normalizedQuery)
                   ELSE maxScore)

\* fields.forEach, from field i on: the highest score of a matching field,
\* starting from maxScore.
RECURSIVE MaxScore(_, _, _, _, _)
MaxScore(task, fields, normalizedQuery, i, maxScore) ==
  IF i > Len(fields) THEN maxScore
  ELSE LET score == calculateRelevanceScore(task[fields[i]], normalizedQuery) IN
       MaxScore(task, fields, normalizedQuery, i + 1,
                IF FieldMatches(task, fields[i], normalizedQuery) /\ FracLess(maxScore, score)
                  THEN score ELSE maxScore)

\* The callback of map in elasticSearch.
SearchTask(task, normalizedQuery, options) ==
  LET matching == {i \in 1..Len(options.fields) :
                     FieldMatches(task, options.fields[i], normalizedQuery)}
      highlights == IF options.includeHighlights
                      THEN [f \in {options.fields[i] : i \in matching} |->
                              highlightMatches(task[f], normalizedQuery)]
                      ELSE <<>>
  IN IF matching = {} THEN NullResult
     ELSE [_score |-> MaxScore(task, options.fields, normalizedQuery, 1, Frac(0, 1)),
           _highlights |-> highlights,
           _matched |-> TRUE] @@ task

EmptyQueryUntrimmed(query) == Not(query)

\* !query || !query.trim()
EmptyQuery(query) == Not(query) \/ trim(query) = <<>>

\* elasticSearch(tasks, query, options) on heap h, tasks being array r: the
\* heap it leaves and the array it returns.
elasticSearch(h, r, query, options) ==
  IF EmptyQuery(query)
    THEN LET mapped == NewArray(h, r, [i \in 1..Len(h[r]) |->
                         [_score |-> Frac(0, 1), _highlights |-> <<>>] @@ h[r][i]])
         IN [heap |-> mapped, ref |-> Len(mapped)]
  ELSE LET normalizedQuery == normalizeText(query)
           mapped == NewArray(h, r, [i \in 1..Len(h[r]) |->
                       SearchTask(h[r][i], normalizedQuery, options)])
           filtered == NewArray(mapped, Len(mapped),
                         SelectSeq(mapped[Len(mapped)], LAMBDA task :
                           task # NullResult /\ ~FracLess(task._score, options.minScore)))
           results == Len(filtered)
       IN [heap |-> IF options.sortByRelevance THEN ArraySort(filtered, results) ELSE filtered,
           ref |-> results]

\* Object.entries(weights).forEach, from entry i on: the sum of the weighted
\* scores of the matching fields, starting from totalScore.
RECURSIVE TotalScore(_, _, _, _, _)
TotalScore(task, weights, query, i, totalScore) ==
  IF i > Len(weights) THEN totalScore
  ELSE TotalScore(task, weights, query, i + 1,
         IF FieldMatches(task, weights[i].field, query)
           THEN FracSum(totalScore,
                        FracTimes(calculateRelevanceScore(task[weights[i].field], query),
                                  weights[i].weight))
           ELSE totalScore)

\* The callback of map in multiMatchSearch.
MultiMatchTask(task, weights, query) ==
  IF \E i \in 1..Len(weights) : FieldMatches(task, weights[i].field, query)
    THEN [_score |-> TotalScore(task, weights, query, 1, Frac(0, 1)),
          _matched |-> TRUE] @@ task
    ELSE NullResult

\* multiMatchSearch(tasks, query, fieldWeights) on heap h, tasks being array r.
multiMatchSearch(h, r, query, fieldWeights) ==
  IF EmptyQuery(query) THEN [heap |-> h, ref |-> r]
  ELSE LET weights == MergedWeights(fieldWeights)
           mapped == NewArray(h, r, [i \in 1..Len(h[r]) |->
                       MultiMatchTask(h[r][i], weights, query)])
           filtered == NewArray(mapped, Len(mapped),
                         SelectSeq(mapped[Len(mapped)], LAMBDA task : task # NullResult))
       IN [heap |-> ArraySort(filtered, Len(filtered)), ref |-> Len(filtered)]

\* The array the caller passes is the first of the heap.
tasks == 1

\* Nothing is searched.
SearchIdle ==
  /\ heap = <<<<>>>>
  /\ given = <<>>
  /\ sQuery = Undefined
  /\ sOptions = [fields |-> <<"title", "description">>, minScore |-> Frac(0, 1),
                sortByRelevance |-> TRUE, includeHighlights |-> FALSE]
  /\ sWeights = <<>>
  /\ sResults = tasks
  /\ called = "none"

\* Any tasks, any query, any options.
SearchInit ==
  /\ given \in UNION {[1..n -> SampleTasks] : n \in 0..MaxTasks}
  /\ heap = <<given>>
  /\ sQuery \in SampleQueries
  /\ sOptions \in SampleOptions
  /\ sWeights \in SampleWeights
  /\ sResults = tasks
  /\ called = "none"

\* elasticSearch(tasks, query, options) is called.
ElasticSearch ==
  /\ called = "none"
  /\ called' = "elasticSearch"
  /\ heap' = elasticSearch(heap, tasks, sQuery, sOptions).heap
  /\ sResults' = elasticSearch(heap, tasks, sQuery, sOptions).ref
  /\ UNCHANGED <<given, sQuery, sOptions, sWeights>>

\* multiMatchSearch(tasks, query, fieldWeights) is called.
MultiMatchSearch ==
  /\ called = "none"
  /\ called' = "multiMatchSearch"
  /\ heap' = multiMatchSearch(heap, tasks, sQuery, sWeights).heap
  /\ sResults' = multiMatchSearch(heap, tasks, sQuery, sWeights).ref
  /\ UNCHANGED <<given, sQuery, sOptions, sWeights>>

\* ------------------------------------------------------------ single calls

\* No function is called on its own.
FnIdle ==
  /\ fn = "none"
  /\ fnArgs = <<>>
  /\ fnResult = <<>>

\* The longest text given to calculateRelevanceScore.
MaxScoreTextLen == 5

\* Any text and any query, or none, for calculateRelevanceScore.
ScoreInit ==
  /\ fn = "none"
  /\ fnArgs \in [text : Strings(MaxScoreTextLen) \cup {Undefined},
                 query : Strings(MaxQueryLen) \cup {Undefined}]
  /\ fnResult = <<>>

\* calculateRelevanceScore(text, query) is called.
CalculateRelevanceScore ==
  /\ fn = "none"
  /\ fn' = "calculateRelevanceScore"
  /\ fnResult' = calculateRelevanceScore(fnArgs.text, fnArgs.query)
  /\ UNCHANGED fnArgs

\* ------------------------------------------------------------ levenshteinDistance

MinOfFirstTwo(x, y, z) == IF x <= y THEN x ELSE y

\* Math.min of three numbers
Min3(x, y, z) ==
  IF x <= y /\ x <= z THEN x
  ELSE IF y <= z THEN y
  ELSE z

\* The inner loop for row i: prev is dp[i - 1], row is dp[i] as far as it is
\* filled; column j of a row is its element j + 1.
RECURSIVE FillRow(_, _, _, _, _)
FillRow(str1, str2, i, prev, row) ==
  LET j == Len(row) IN
  IF j > Len(str2) THEN row
  ELSE FillRow(str1, str2, i, prev,
         Append(row, IF str1[i] = str2[j] THEN prev[j]
                     ELSE Min3(prev[j] + 1, prev[j + 1] + 1, row[j] + 1)))

\* The outer loop from row i on; dp[i][0] = i.
RECURSIVE FillTable(_, _, _, _)
FillTable(str1, str2, i, prev) ==
  IF i > Len(str1) THEN prev
  ELSE FillTable(str1, str2, i + 1, FillRow(str1, str2, i, prev, <<i>>))

\* levenshteinDistance: dp[m][n], with dp[0][j] = j.
levenshteinDistance(str1, str2) ==
  FillTable(str1, str2, 1, [j \in 1..(Len(str2) + 1) |-> j - 1])[Len(str2) + 1]

\* The longest string given to levenshteinDistance.
MaxWordLen == 3

\* The characters of the strings given to levenshteinDistance.
Letters == {"a", "b"}

\* The strings of at most n letters.
Words(n) == UNION {[1..k -> Letters] : k \in 0..n}

\* Any three strings.
DistanceInit ==
  /\ fn = "none"
  /\ fnArgs \in Words(MaxWordLen) \X Words(MaxWordLen) \X Words(MaxWordLen)
  /\ fnResult = <<>>

\* levenshteinDistance is called for every two of the three strings.
LevenshteinDistance ==
  /\ fn = "none"
  /\ fn' = "levenshteinDistance"
  /\ fnResult' = [p \in (1..3) \X (1..3) |-> levenshteinDistance(fnArgs[p[1]], fnArgs[p[2]])]
  /\ UNCHANGED fnArgs

\* ------------------------------------------------------------ fuzzyMatch

\* String.prototype.split(/\s+/): the pieces between the runs of spaces; a run
\* at either end leaves an empty piece there.
RECURSIVE split(_)
split(s) ==
  LET spaces == {i \in 1..Len(s) : s[i] = " "} IN
  IF spaces = {} THEN <<s>>
  ELSE LET first == CHOOSE i \in spaces : \A j \in spaces : i <= j IN
       <<SubSeq(s, 1, first - 1)>> \o split(trimStart(SubSeq(s, first, Len(s))))

\* fuzzyMatch
fuzzyMatch(text, query, maxDistance) ==
  LET normalizedText == normalizeText(text)
      normalizedQuery == normalizeText(query)
      words == split(normalizedText)
  IN IF normalizedText = <<>> \/ normalizedQuery = <<>> THEN FALSE
     ELSE IF includes(normalizedText, normalizedQuery) THEN TRUE
     ELSE \E i \in 1..Len(words) :
            levenshteinDistance(words[i], normalizedQuery) <= maxDistance

\* maxDistance = 2
DEFAULT_MAX_DISTANCE == 2

\* A text with a misspelt word and the word it is meant to be.
MisspeltText == <<"r", "e", "c", "i", "e", "v", "e", " ", "t", "h", "e", " ", "p", "a", "c", "k", "a", "g", "e">>

IntendedWord == <<"r", "e", "c", "e", "i", "v", "e">>

\* Any text, any query, or none, and any distance up to the default.
FuzzyInit ==
  /\ fn = "none"
  /\ fnArgs \in [text : Strings(MaxTextLen) \cup {Undefined, MisspeltText},
                 query : Strings(MaxQueryLen) \cup {Undefined, IntendedWord},
                 maxDistance : 0..DEFAULT_MAX_DISTANCE]
  /\ fnResult = <<>>

\* fuzzyMatch(text, query, maxDistance) is called.
FuzzyMatch ==
  /\ fn = "none"
  /\ fn' = "fuzzyMatch"
  /\ fnResult' = fuzzyMatch(fnArgs.text, fnArgs.query, fnArgs.maxDistance)
  /\ UNCHANGED fnArgs

\* ------------------------------------------------------------ getSearchSuggestions

\* Math.max of two numbers
Max2(x, y) == IF x < y THEN y ELSE x

\* 1 - (distance / Math.max(normalizedQuery.length, normalizedTerm.length)) as
\* a fraction; the denominator is 0 where the division gives NaN.
Similarity(distance, longest) == Frac(longest - distance, longest)

AtLeastHalf(similarity) ==
  similarity.d # 0 /\ ~FracLess(similarity, Frac(1, 2))

\* s.similarity > 0.5; no comparison with NaN is true.
MoreThanHalf(similarity) ==
  similarity.d # 0 /\ FracLess(Frac(1, 2), similarity)

\* The callback of map in getSearchSuggestions.
SuggestionOf(term, normalizedQuery) ==
  LET normalizedTerm == normalizeText(term)
      distance == levenshteinDistance(normalizedQuery, normalizedTerm)
  IN [term |-> term,
      similarity |-> Similarity(distance, Max2(Len(normalizedQuery), Len(normalizedTerm))),
      distance |-> distance]

\* The place of x in a sequence sorted by non-increasing similarity.
RECURSIVE InsertBySimilarity(_, _)
InsertBySimilarity(sorted, x) ==
  IF sorted = <<>> THEN <<x>>
  ELSE IF FracLess(Head(sorted).similarity, x.similarity) THEN <<x>> \o sorted
  ELSE <<Head(sorted)>> \o InsertBySimilarity(Tail(sorted), x)

\* sort((a, b) => b.similarity - a.similarity); Array.prototype.sort is stable.
RECURSIVE SortBySimilarity(_)
SortBySimilarity(s) ==
  IF s = <<>> THEN <<>>
  ELSE InsertBySimilarity(SortBySimilarity(SubSeq(s, 1, Len(s) - 1)), s[Len(s)])

\* Array.prototype.slice(0, n), for n >= 0
slice(s, n) == SubSeq(s, 1, IF n < Len(s) THEN n ELSE Len(s))

\* getSearchSuggestions
getSearchSuggestions(query, dictionary, maxSuggestions) ==
  IF Not(query) \/ Not(dictionary) THEN <<>>
  ELSE LET normalizedQuery == normalizeText(query)
           mapped == [i \in 1..Len(dictionary) |-> SuggestionOf(dictionary[i], normalizedQuery)]
           filtered == SelectSeq(mapped, LAMBDA x : MoreThanHalf(x.similarity))
           sliced == slice(SortBySimilarity(filtered), maxSuggestions)
       IN [i \in 1..Len(sliced) |-> sliced[i].term]

\* The most terms in a dictionary.
MaxTerms == 3

\* The terms of the dictionaries.
SampleTerms == {<<"a", "b">>, <<"A", "b", " ">>, <<"a", "b", "b">>, <<"a", "a", "b">>,
                <<"a">>, Undefined}

\* The queries suggestions are asked for.
SuggestQueries == {Undefined, <<>>, <<" ">>, <<"a", "b">>, <<" ", "A", "b">>}

\* A misspelt query and a dictionary with the word it is meant to be.
MisspeltQuery == <<"p", "i", "r", "o", "r", "i", "t", "y">>

SampleDictionary == <<<<"p", "r", "i", "o", "r", "i", "t", "y">>,
                      <<"p", "r", "i", "o", "r", "t", "y">>,
                      <<"d", "e", "s", "c", "r", "i", "p", "t", "i", "o", "n">>>>

\* maxSuggestions = 5
DEFAULT_MAX_SUGGESTIONS == 5

\* Any query, any dictionary, or none, and any number of suggestions.
SuggestInit ==
  /\ fn = "none"
  /\ fnArgs \in [query : SuggestQueries,
                 dictionary : UNION {[1..n -> SampleTerms] : n \in 0..MaxTerms} \cup {Undefined},
                 maxSuggestions : 0..MaxTerms]
               \cup {[query |-> MisspeltQuery, dictionary |-> SampleDictionary,
                      maxSuggestions |-> DEFAULT_MAX_SUGGESTIONS]}
  /\ fnResult = <<>>

\* getSearchSuggestions(query, dictionary, maxSuggestions) is called.
GetSearchSuggestions ==
  /\ fn = "none"
  /\ fn' = "getSearchSuggestions"
  /\ fnResult' = getSearchSuggestions(fnArgs.query, fnArgs.dictionary, fnArgs.maxSuggestions)
  /\ UNCHANGED fnArgs

\* ------------------------------------------------------------ entry points
\* What a call of an entry point comes to: it returns, it throws, or it never
\* returns. A TypeError is thrown where a property is read or a method is
\* called on undefined or null; undefined stands for both, which the code
\* never tells apart.

\* x.property and x.method() throw.
Raises(x) == x = Undefined

\* normalizeText throws: text.toLowerCase() behind the test of !text.
normalizeTextThrows(text) == ~Not(text) /\ Raises(text)

\* calculateRelevanceScore throws; the methods after the two calls of
\* normalizeText are called on what normalizeText returned.
calculateRelevanceScoreThrows(text, query) ==
  normalizeTextThrows(text) \/ normalizeTextThrows(query)

\* matchesQuery throws.
matchesQueryThrows(text, query) ==
  normalizeTextThrows(text) \/ normalizeTextThrows(query)

\* highlightMatches throws: text.substring() behind the test of !text.
highlightMatchesThrows(text, query) ==
  /\ ~(Not(text) \/ Not(query))
  /\ normalizeTextThrows(text) \/ normalizeTextThrows(query) \/ Raises(text)

\* fuzzyMatch throws.
fuzzyMatchThrows(text, query) ==
  normalizeTextThrows(text) \/ normalizeTextThrows(query)

\* getSearchSuggestions throws: dictionary.length behind the test of
\* !dictionary, normalizeText for the query and for every term.
getSearchSuggestionsThrows(query, dictionary) ==
  /\ ~Not(query)
  /\ ~Raises(dictionary)
  /\ dictionary # <<>>
  /\ \/ normalizeTextThrows(query)
     \/ \E i \in 1..Len(dictionary) : normalizeTextThrows(dictionary[i])

\* The callback of fields.forEach throws for a field of a task.
FieldThrows(task, field, normalizedQuery, includeHighlights) ==
  /\ ~Not(task[field])
  /\ \/ matchesQueryThrows(task[field], normalizedQuery)
     \/ /\ matchesQuery(task[field], normalizedQuery)
        /\ \/ calculateRelevanceScoreThrows(task[field], normalizedQuery)
           \/ includeHighlights /\ highlightMatchesThrows(task[field], normalizedQuery)

\* elasticSearch throws: query.trim() behind the test of !query, and the
\* callbacks of map and forEach; tasksGiven is an array.
elasticSearchThrows(tasksGiven, query, options) ==
  \/ ~Not(query) /\ Raises(query)
  \/ /\ ~EmptyQuery(query)
     /\ \/ normalizeTextThrows(query)
        \/ \E i \in 1..Len(tasksGiven), k \in 1..Len(options.fields) :
             FieldThrows(tasksGiven[i], options.fields[k], normalizeText(query),
                         options.includeHighlights)

\* multiMatchSearch throws; tasksGiven is an array.
multiMatchSearchThrows(tasksGiven, query, fieldWeights) ==
  \/ ~Not(query) /\ Raises(query)
  \/ /\ ~EmptyQuery(query)
     /\ \/ normalizeTextThrows(query)
        \/ \E i \in 1..Len(tasksGiven), k \in 1..Len(MergedWeights(fieldWeights)) :
             FieldThrows(tasksGiven[i], MergedWeights(fieldWeights)[k].field, query, FALSE)

\* Thrown, never returned, or returned with a value.
Outcome(throws, loops, returned) ==
  IF throws THEN [outcome |-> "throws", value |-> <<>>]
  ELSE IF loops THEN [outcome |-> "loops", value |-> <<>>]
  ELSE [outcome |-> "returns", value |-> returned]

\* The options elasticSearch is called with here: the defaults, with highlights.
HighlightingOptions ==
  [fields |-> <<"title", "description">>, minScore |-> Frac(0, 1),
   sortByRelevance |-> TRUE, includeHighlights |-> TRUE]

\* The array a search function returns for the array it is given.
Returned(found) == found.heap[found.ref]

\* The call of the entry point `name` with the arguments args.
EntryResult(name, args) ==
  CASE name = "normalizeText" ->
         Outcome(normalizeTextThrows(args.text), FALSE, normalizeText(args.text))
    [] name = "calculateRelevanceScore" ->
         Outcome(calculateRelevanceScoreThrows(args.text, args.query), FALSE,
                 calculateRelevanceScore(args.text, args.query))
    [] name = "matchesQuery" ->
         Outcome(matchesQueryThrows(args.text, args.query), FALSE,
                 matchesQuery(args.text, args.query))
    [] name = "highlightMatches" ->
         Outcome(highlightMatchesThrows(args.text, args.query),
                 ~highlightMatches(args.text, args.query).returns,
                 highlightMatches(args.text, args.query))
    [] name = "fuzzyMatch" ->
         Outcome(fuzzyMatchThrows(args.text, args.query), FALSE,
                 fuzzyMatch(args.text, args.query, DEFAULT_MAX_DISTANCE))
    [] name = "getSearchSuggestions" ->
         Outcome(getSearchSuggestionsThrows(args.query, args.dictionary), FALSE,
                 getSearchSuggestions(args.query, args.dictionary, DEFAULT_MAX_SUGGESTIONS))
    [] name = "elasticSearch" ->
         Outcome(elasticSearchThrows(args.tasks, args.query, HighlightingOptions), FALSE,
                 Returned(elasticSearch(<<args.tasks>>, tasks, args.query, HighlightingOptions)))
    [] name = "multiMatchSearch" ->
         Outcome(multiMatchSearchThrows(args.tasks, args.query, <<>>), FALSE,
                 Returned(multiMatchSearch(<<args.tasks>>, tasks, args.query, <<>>)))

\* Texts and queries that are absent, empty, blank or neither.
SampleTexts == {Undefined, <<>>, <<" ">>, <<"a">>, <<" ", "A", "b">>}

\* Arrays of tasks, some lacking a field.
SampleArrays == {<<>>} \cup {<<t>> : t \in SampleTasks}

\* Dictionaries, one with an absent term, and no dictionary.
SampleDictionaries == {Undefined, <<>>, <<<<"a", "b">>, <<"a">>>>, <<Undefined, <<"a">>>>}

\* Any of these as the arguments of an entry point.
EntryInit ==
  /\ fn = "none"
  /\ fnArgs \in [text : SampleTexts, query : SampleTexts \ {<<" ", "A", "b">>},
                 tasks : SampleArrays, dictionary : SampleDictionaries]
  /\ fnResult = <<>>

\* The entry point `name` is called.
CallEntryPoint(name) ==
  /\ fn = "none"
  /\ fn' = name
  /\ fnResult' = EntryResult(name, fnArgs)
  /\ UNCHANGED fnArgs

\* ------------------------------------------------------------ task mail automation
\* services/taskMailAutomation.js. Due dates and the clock that new Date()
\* reads are counted in units of 12 hours.

\* 24 * 60 * 60 * 1000 ms
DUE_SOON_WINDOW == 2

\* .slice(0, 3)
HIGH_PRIORITY_LIMIT == 3

\* if (notificationHistory.length > 100)
HISTORY_LIMIT == 100

\* A task document: rev tells the edits of its title and description apart.
Doc(id, completed, priority, dueDate) ==
  [id |-> id, completed |-> completed, rev |-> 0, priority |-> priority,
   dueDate |-> dueDate]

\* The indices of S in the order of the array.
RECURSIVE Ascending(_)
Ascending(S) ==
  IF S = {} THEN <<>>
  ELSE LET m == CHOOSE x \in S : \A y \in S : x <= y
       IN  <<m>> \o Ascending(S \ {m})

Elements(s) == {s[k] : k \in DOMAIN s}

\* checkOverdueTasks, new Date() returning t: the tasks it keeps, as indices
\* of the array (filter keeps the objects of the array themselves).
checkOverdueTasks(ts, t) ==
  Ascending({i \in DOMAIN ts : ~ts[i].completed /\ ts[i].dueDate < t})

\* checkDueSoonTasks, new Date() returning t
checkDueSoonTasks(ts, t) ==
  Ascending({i \in DOMAIN ts : /\ ~ts[i].completed
                               /\ ts[i].dueDate > t
                               /\ ts[i].dueDate <= t + DUE_SOON_WINDOW})

\* checkHighPriorityTasks
checkHighPriorityTasks(ts) ==
  Ascending({i \in DOMAIN ts : ~ts[i].completed /\ ts[i].priority = "High"})

\* The high priority tasks, none of them left out.
Unfiltered(high, overdueTasks, dueSoonTasks) == high

\* .filter(task => !overdueTasks.includes(task) && !dueSoonTasks.includes(task))
NeitherOverdueNorDueSoon(high, overdueTasks, dueSoonTasks) ==
  Ascending(Elements(high) \ (Elements(overdueTasks) \cup Elements(dueSoonTasks)))

\* The notifications of one kind, one for each task of s, in order.
Notifications(type, s) == [k \in 1..Len(s) |-> [type |-> type, task |-> s[k]]]

\* checkTasksAndNotify: the notifications it sends, in order. The clock is read
\* at t1 by checkOverdueTasks and, after the overdue mails are sent, at t2 by
\* checkDueSoonTasks.
checkTasksAndNotify(ts, t1, t2) ==
  LET overdueTasks == checkOverdueTasks(ts, t1)
      dueSoonTasks == checkDueSoonTasks(ts, t2)
      highPriorityTasks ==
        slice(NeitherOverdueNorDueSoon(checkHighPriorityTasks(ts), overdueTasks,
                                       dueSoonTasks), HIGH_PRIORITY_LIMIT)
  IN  Notifications("overdue", overdueTasks)
        \o Notifications("due_soon", dueSoonTasks)
        \o Notifications("high_priority", highPriorityTasks)

\* The longest array of tasks given to one call of checkTasksAndNotify.
MaxNotifyTasks == 4

\* Tasks of every kind, for a check at time 0 or 1: overdue, due at the time
\* of the second read, due within the window, due later; pending and completed.
NotifyDocs ==
  {Doc(0, FALSE, "High", -1), Doc(0, FALSE, "High", 1), Doc(0, FALSE, "High", 5),
   Doc(0, FALSE, "Low", -1), Doc(0, FALSE, "Low", 2), Doc(0, TRUE, "High", -1),
   Doc(0, TRUE, "Low", 2)}

\* Any array of tasks; the clock may pass a unit between the two reads.
NotifyInit ==
  /\ fn = "none"
  /\ \E n \in 0..MaxNotifyTasks :
       fnArgs \in [tasks : [1..n -> NotifyDocs], t1 : {0}, t2 : {0, 1}]
  /\ fnResult = <<>>

\* checkTasksAndNotify(tasks) is called and runs to its end.
CheckTasksAndNotify ==
  /\ fn = "none"
  /\ fn' = "checkTasksAndNotify"
  /\ fnResult' = checkTasksAndNotify(fnArgs.tasks, fnArgs.t1, fnArgs.t2)
  /\ UNCHANGED fnArgs

\* ------------------------------------------------------------ tasks
\* The routes of backend/routes/tasks.js, the handlers of Dashboard that call
\* them, and the automation Dashboard sets up. A handler of Dashboard awaits
\* the response of its request and then sets `tasks` from the `tasks` of the
\* render it was created in.

\* The most documents that are ever created.
MaxDocs == 2

\* The most requests Dashboard issues.
MaxIssued == 4

\* The most checks of the tasks that are made.
MaxChecks == 3

\* The instant the checks are made at: they are short against the due dates.
CheckTime == 0

\* The document with _id id as POST creates it: the first is a high priority
\* task that is overdue, the second is due within a day, the others later.
SampleDoc(id) ==
  IF id = 1 THEN Doc(1, FALSE, "High", CheckTime - 1)
  ELSE IF id = 2 THEN Doc(2, FALSE, "Low", CheckTime + 1)
  ELSE Doc(id, FALSE, "High", CheckTime + DUE_SOON_WINDOW + 1)

NoSend == [origin |-> "none", task |-> 0, active |-> FALSE]

NoCheck == [origin |-> "none", examined |-> <<>>, current |-> <<>>]

\* The backend holds one task; Dashboard is not mounted; no mail was sent.
TaskIdle ==
  /\ db = {SampleDoc(1)}
  /\ nextId = 2
  /\ answered = [id \in 1..MaxDocs |-> 0]
  /\ rewritten = {}
  /\ requests = {}
  /\ issued = 0
  /\ dashboardMounted = FALSE
  /\ dashboardTasks = <<>>
  /\ automationEnabled = TRUE
  /\ failed = FALSE
  /\ intervalOn = FALSE
  /\ getTasks = <<>>
  /\ runs = {}
  /\ started = 0
  /\ lastCheck = NoCheck
  /\ notificationHistory = <<>>
  /\ sent = 0
  /\ cleared = 0
  /\ lastSend = NoSend

\* Task.findById(id): the documents found, one or none
findById(id) == {d \in db : d.id = id}

\* Task.find().sort({ createdAt: -1 }): documents are created in the order of
\* their ids
RECURSIVE NewestFirst(_)
NewestFirst(docs) ==
  IF docs = {} THEN <<>>
  ELSE LET newest == CHOOSE d \in docs : \A e \in docs : e.id <= d.id
       IN  <<newest>> \o NewestFirst(docs \ {newest})

\* A request as a handler of Dashboard sends it: `tasks` is the state the
\* handler closes over, `completed` what the body of a PUT carries.
Request(kind, id, completed) ==
  [n |-> issued + 1, kind |-> kind, id |-> id, tasks |-> dashboardTasks,
   completed |-> completed, stage |-> "sent", data |-> <<>>]

\* The request q with the response the route gives it.
Answered(q, stage, data) == [q EXCEPT !.stage = stage, !.data = data]

Replaced(q, r) == (requests \ {q}) \cup {r}

\* router.get('/')
Get(q) ==
  /\ q.kind = "get" /\ q.stage = "sent"
  /\ requests' = Replaced(q, Answered(q, "ok", NewestFirst(db)))
  /\ UNCHANGED <<backendVars, issued, viewVars, schedulerVars, mailVars>>

\* router.post('/'): the document is created with completed false
Post(q) ==
  /\ q.kind = "post" /\ q.stage = "sent"
  /\ db' = db \cup {SampleDoc(nextId)}
  /\ nextId' = nextId + 1
  /\ requests' = Replaced(q, Answered(q, "ok", <<SampleDoc(nextId)>>))
  /\ UNCHANGED <<answered, rewritten, issued, viewVars, schedulerVars, mailVars>>

\* router.put('/:id'): findByIdAndUpdate, or 404
Put(q) ==
  /\ q.kind = "put" /\ q.stage = "sent"
  /\ IF findById(q.id) = {}
     THEN /\ requests' = Replaced(q, Answered(q, "error", <<>>))
          /\ UNCHANGED <<db, rewritten>>
     ELSE LET task == CHOOSE d \in findById(q.id) : TRUE
              updatedTask == [task EXCEPT !.rev = q.n, !.completed = q.completed]
          IN  /\ db' = (db \ {task}) \cup {updatedTask}
              /\ rewritten' = rewritten \cup {q.id}
              /\ requests' = Replaced(q, Answered(q, "ok", <<updatedTask>>))
  /\ UNCHANGED <<nextId, answered, issued, viewVars, schedulerVars, mailVars>>

\* router.delete('/:id'): findByIdAndDelete, or 404
Delete(q) ==
  /\ q.kind = "delete" /\ q.stage = "sent"
  /\ IF findById(q.id) = {}
     THEN /\ requests' = Replaced(q, Answered(q, "error", <<>>))
          /\ UNCHANGED <<db, rewritten>>
     ELSE /\ db' = db \ findById(q.id)
          /\ rewritten' = rewritten \cup {q.id}
          /\ requests' = Replaced(q, Answered(q, "ok", <<>>))
  /\ UNCHANGED <<nextId, answered, issued, viewVars, schedulerVars, mailVars>>

\* router.patch('/:id/toggle') up to its first await: Task.findById, or 404
ToggleFindById(q) ==
  /\ q.kind = "patch" /\ q.stage = "sent"
  /\ IF findById(q.id) = {}
     THEN /\ requests' = Replaced(q, Answered(q, "error", <<>>))
          /\ answered' = [answered EXCEPT ![q.id] = @ + 1]
     ELSE /\ requests' = Replaced(q, Answered(q, "found", <<CHOOSE d \in findById(q.id) : TRUE>>))
          /\ UNCHANGED answered
  /\ UNCHANGED <<db, nextId, rewritten, issued, viewVars, schedulerVars, mailVars>>

\* task.completed = !task.completed, on the document as it was read
Toggled(task) == [task EXCEPT !.completed = ~task.completed]

\* router.patch('/:id/toggle') from its first await on: the flag of the
\* document that was read is negated and task.save() writes the changed path,
\* completed, to the stored document; the response is the document in memory.
\* save() fails when the document is no longer stored.
ToggleSave(q) ==
  /\ q.kind = "patch" /\ q.stage = "found"
  /\ answered' = [answered EXCEPT ![q.id] = @ + 1]
  /\ IF findById(q.id) = {}
     THEN /\ requests' = Replaced(q, Answered(q, "error", <<>>))
          /\ UNCHANGED db
     ELSE LET stored == CHOOSE d \in findById(q.id) : TRUE
              updatedTask == Toggled(q.data[1])
          IN  /\ db' = (db \ {stored})
                         \cup {[stored EXCEPT !.completed = updatedTask.completed]}
              /\ requests' = Replaced(q, Answered(q, "ok", <<updatedTask>>))
  /\ UNCHANGED <<nextId, rewritten, issued, viewVars, schedulerVars, mailVars>>

\* fetchTasks up to its await
fetchTasks == Request("get", 0, FALSE)

\* The notifications of a run of checkTasksAndNotify over ts, by task id.
Planned(ts) ==
  LET notifications == checkTasksAndNotify(ts, CheckTime, CheckTime)
  IN  [k \in DOMAIN notifications |->
         [type |-> notifications[k].type, task |-> ts[notifications[k].task].id]]

\* runAutomation: the runs once checkTasksAndNotify(tasks) is called for a
\* non-empty array and waits for its first mail
runAutomation(origin, ts) ==
  IF Len(ts) > 0 /\ Planned(ts) # <<>>
  THEN runs \cup {[k |-> started + 1, origin |-> origin, queue |-> Planned(ts)]}
  ELSE runs

\* A check over ts made while the tasks of Dashboard are current.
Checked(origin, ts, current) == [origin |-> origin, examined |-> ts, current |-> current]

\* setupTaskAutomation(getTasks, 20): runAutomation() at once, then setInterval
setupTaskAutomation(ts) ==
  /\ getTasks' = ts
  /\ runs' = runAutomation("setup", ts)
  /\ started' = started + 1
  /\ lastCheck' = Checked("setup", ts, ts)
  /\ intervalOn' = TRUE

\* The effect of Dashboard with the dependency automationEnabled, for a render
\* with automationEnabled = enabled and tasks = ts, after the cleanup of the
\* effect of the render before: fetchTasks(), and the automation is set up with
\* () => tasks if it is enabled.
AutomationEffect(enabled, ts) ==
  /\ requests' = requests \cup {fetchTasks}
  /\ issued' = issued + 1
  /\ IF enabled
     THEN setupTaskAutomation(ts)
     ELSE /\ intervalOn' = FALSE
          /\ UNCHANGED <<getTasks, runs, started, lastCheck>>

\* Dashboard is mounted.
DashboardMount ==
  /\ ~dashboardMounted
  /\ issued < MaxIssued /\ started < MaxChecks
  /\ dashboardMounted' = TRUE
  /\ dashboardTasks' = <<>>
  /\ automationEnabled' = TRUE
  /\ AutomationEffect(TRUE, <<>>)
  /\ UNCHANGED <<backendVars, failed, mailVars>>

\* Dashboard is unmounted: the cleanup of the effect.
DashboardUnmount ==
  /\ dashboardMounted
  /\ dashboardMounted' = FALSE
  /\ intervalOn' = FALSE
  /\ UNCHANGED <<backendVars, requestVars, dashboardTasks, automationEnabled,
                 failed, getTasks, runs, started, lastCheck, mailVars>>

\* handleToggleAutomation, and the effect of the render that follows
HandleToggleAutomation ==
  /\ dashboardMounted
  /\ issued < MaxIssued /\ (automationEnabled \/ started < MaxChecks)
  /\ automationEnabled' = ~automationEnabled
  /\ AutomationEffect(~automationEnabled, dashboardTasks)
  /\ UNCHANGED <<backendVars, dashboardMounted, dashboardTasks, failed, mailVars>>

\* The callback of setInterval(runAutomation, intervalMs)
AutomationIntervalFires ==
  /\ intervalOn
  /\ started < MaxChecks
  /\ runs' = runAutomation("interval", getTasks)
  /\ started' = started + 1
  /\ lastCheck' = Checked("interval", getTasks, dashboardTasks)
  /\ UNCHANGED <<backendVars, requestVars, viewVars, intervalOn, getTasks, mailVars>>

\* handleManualAutomationRun with tasks to check
HandleManualAutomationRun ==
  /\ dashboardMounted
  /\ Len(dashboardTasks) # 0
  /\ started < MaxChecks
  /\ runs' = runAutomation("manual", dashboardTasks)
  /\ started' = started + 1
  /\ lastCheck' = Checked("manual", dashboardTasks, dashboardTasks)
  /\ UNCHANGED <<backendVars, requestVars, viewVars, intervalOn, getTasks, mailVars>>

\* notificationHistory.push(notification)
push(history, notification) == Append(history, notification)

\* notificationHistory.unshift(notification)
unshift(history, notification) == <<notification>> \o history

\* The automation is set up and not stopped.
AutomationActive == dashboardMounted /\ automationEnabled

\* The callback of the setTimeout of sendMockEmail for the mail a run waits
\* for: the mail is added to the history, the history is cut, and the run goes
\* on to its next mail.
SendCompletes(run) ==
  /\ run \in runs
  /\ sent' = sent + 1
  /\ notificationHistory' = slice(unshift(notificationHistory, sent + 1), HISTORY_LIMIT)
  /\ runs' = IF Len(run.queue) = 1 THEN runs \ {run}
             ELSE (runs \ {run}) \cup {[run EXCEPT !.queue = Tail(run.queue)]}
  /\ lastSend' = [origin |-> run.origin, task |-> Head(run.queue).task,
                  active |-> AutomationActive]
  /\ UNCHANGED <<backendVars, requestVars, viewVars, intervalOn, getTasks,
                 started, lastCheck, cleared>>

\* clearNotificationHistory
ClearNotificationHistory ==
  /\ notificationHistory # <<>>
  /\ notificationHistory' = <<>>
  /\ cleared' = sent
  /\ UNCHANGED <<backendVars, requestVars, viewVars, schedulerVars, sent, lastSend>>

\* The ids of the tasks Dashboard shows.
Shown == {dashboardTasks[i].id : i \in DOMAIN dashboardTasks}

\* A handler sends its request.
Send(q) ==
  /\ dashboardMounted
  /\ issued < MaxIssued
  /\ requests' = requests \cup {q}
  /\ issued' = issued + 1
  /\ UNCHANGED <<backendVars, viewVars, schedulerVars, mailVars>>

\* handleCreateTask up to its await
HandleCreateTask ==
  /\ nextId + Cardinality({q \in requests : q.kind = "post" /\ q.stage = "sent"}) <= MaxDocs
  /\ Send(Request("post", 0, FALSE))

\* handleUpdateTask up to its await, for the task being edited
HandleUpdateTask ==
  \E i \in DOMAIN dashboardTasks :
    Send(Request("put", dashboardTasks[i].id, dashboardTasks[i].completed))

\* handleDeleteTask up to its await
HandleDeleteTask == \E id \in Shown : Send(Request("delete", id, FALSE))

\* handleToggleComplete up to its await
HandleToggleComplete == \E id \in Shown : Send(Request("patch", id, FALSE))

\* tasks.map(task => task._id === id ? data : task)
MapReplacing(ts, id, data) ==
  [i \in DOMAIN ts |-> IF ts[i].id = id THEN data ELSE ts[i]]

\* tasks.filter(task => task._id !== id)
FilterOut(ts, id) ==
  LET kept == Ascending({i \in DOMAIN ts : ts[i].id # id})
  IN  [k \in DOMAIN kept |-> ts[kept[k]]]

\* What the handler of the request q passes to setTasks after its await.
setTasks(q) ==
  IF q.kind = "get" THEN q.data
  ELSE IF q.kind = "post" THEN <<q.data[1]>> \o q.tasks
  ELSE IF q.kind = "delete" THEN FilterOut(q.tasks, q.id)
  ELSE MapReplacing(q.tasks, q.id, q.data[1])

\* The response of a request arrives and its handler runs from its await to
\* its end: setTasks, or the catch block. React drops the update of a
\* component that is no longer mounted.
Response(q) ==
  /\ q \in requests
  /\ q.stage \in {"ok", "error"}
  /\ requests' = requests \ {q}
  /\ dashboardTasks' = IF dashboardMounted /\ q.stage = "ok"
                         THEN setTasks(q) ELSE dashboardTasks
  /\ failed' = (failed \/ q.stage = "error")
  /\ UNCHANGED <<backendVars, issued, dashboardMounted, automationEnabled,
                 schedulerVars, mailVars>>

\* ------------------------------------------------------------ specifications

OthersIdle == ProvIdle /\ SearchIdle /\ HighlightIdle /\ FnIdle /\ TaskIdle

\* Everything but the provider instances.
notProviders == <<vars, hookVars, dashVars, searchVars, hlVars, fnVars, taskVars>>

\* Everything but the search.
notSearch == <<vars, hookVars, dashVars, provVars, hlVars, fnVars, taskVars>>

\* Everything but the highlighter.
notHighlight == <<vars, hookVars, dashVars, provVars, searchVars, fnVars, taskVars>>

SpecSearchInit == Init /\ HookIdle /\ DashIdle /\ ProvIdle /\ SearchInit /\ HighlightIdle /\ FnIdle /\ TaskIdle

SpecHighlightInit == Init /\ HookIdle /\ DashIdle /\ ProvIdle /\ SearchIdle /\ HighlightInit /\ FnIdle /\ TaskIdle

\* Everything but the session.
notSession == <<hookVars, dashVars, others>>

\* Everything but the hook.
notHook == <<vars, dashVars, others>>

SpecInit == Init /\ HookIdle /\ DashIdle /\ OthersIdle

SpecStoredInit == InitStored /\ HookIdle /\ DashIdle /\ OthersIdle

allVars == <<vars, hookVars, dashVars, others>>

Next ==
  \/ Tick /\ UNCHANGED notSession
  \/ Mount /\ UNCHANGED notSession
  \/ Submit /\ UNCHANGED notSession
  \/ LoginTimer /\ UNCHANGED notSession
  \/ Logout /\ UNCHANGED notSession
  \/ ExtendSession /\ UNCHANGED notSession
  \/ Activity /\ UNCHANGED notSession
  \/ MonitorCheck /\ UNCHANGED notSession
  \/ Reload /\ UNCHANGED notSession

Spec == SpecInit /\ [][Next]_allVars

SpecStored == SpecStoredInit /\ [][Next]_allVars

\* The session with every function of the context called in any order.
ContextNext ==
  \/ Tick /\ UNCHANGED notSession
  \/ Mount /\ UNCHANGED notSession
  \/ Submit /\ UNCHANGED notSession
  \/ LoginTimer /\ UNCHANGED notSession
  \/ Logout /\ UNCHANGED notSession
  \/ ExtendSession /\ UNCHANGED notSession
  \/ UpdateUser /\ UNCHANGED notSession
  \/ Activity /\ UNCHANGED notSession
  \/ MonitorCheck /\ UNCHANGED notSession
  \/ Reload /\ UNCHANGED notSession

SpecContext == SpecInit /\ [][ContextNext]_allVars

\* What a page finds of a session issued at time 0 by a page before it: the
\* token and the last activity, with or without the profile and the flag.
LeftoverSessions ==
  {st \in StoredContents :
     /\ st["task_manager_token"] = Jwt(0, EXPIRY_TIME)
     /\ st["task_manager_last_activity"] = NumStr(0)
     /\ st["task_manager_timestamp"] = NumStr(0)
     /\ st["user"] = Null}

\* A page load in a browsing context that holds such a session.
SpecLeftoverInit ==
  /\ HookIdle /\ DashIdle /\ OthersIdle
  /\ now = 0
  /\ storage \in LeftoverSessions
  /\ user = NoUser
  /\ isAuthenticated = FALSE
  /\ loading = TRUE
  /\ sessionExpiring = FALSE
  /\ sessionTimeLeft = NoTime
  /\ mounted = FALSE
  /\ capturedAuth = FALSE
  /\ capturedExpiring = FALSE
  /\ nextCheck = 0
  /\ pendingLogins = 0
  /\ gapFree = TRUE
  /\ last = Op("load", TRUE, 0)

SpecLeftover == SpecLeftoverInit /\ [][Next]_allVars

\* A component that uses the hook, with any value and any delay.
DebounceNext ==
  \/ (\E v \in Queries, d \in Delays : HookMount(v, d)) /\ UNCHANGED notHook
  \/ SetValue /\ UNCHANGED notHook
  \/ SetDelay /\ UNCHANGED notHook
  \/ TimerFires /\ UNCHANGED notHook
  \/ HookUnmount /\ UNCHANGED notHook
  \/ ClockTick /\ UNCHANGED notHook

SpecDebounce == SpecInit /\ [][DebounceNext]_allVars

\* A change leaves the clock the time for its timer to come due.
TimeToSettle == clock + DEBOUNCE_DELAY <= MaxClock

\* A component that uses the hook, where no change comes so late that the
\* horizon of the clock ends before its timer is due.
SettlingNext ==
  \/ (\E v \in Queries, d \in Delays : TimeToSettle /\ HookMount(v, d)) /\ UNCHANGED notHook
  \/ TimeToSettle /\ SetValue /\ UNCHANGED notHook
  \/ TimeToSettle /\ SetDelay /\ UNCHANGED notHook
  \/ TimerFires /\ UNCHANGED notHook
  \/ HookUnmount /\ UNCHANGED notHook
  \/ ClockTick /\ UNCHANGED notHook

\* Time passes, and the browser runs the callback of a timeout that is due.
SpecDebounceFair ==
  /\ SpecInit
  /\ [][SettlingNext]_allVars
  /\ WF_allVars(ClockTick /\ UNCHANGED notHook)
  /\ WF_allVars(TimerFires /\ UNCHANGED notHook)

\* The session and Dashboard together, within a minute of the session clock.
\* Expiry reaches Dashboard as a call of logout or as a reload.
DashboardNext ==
  \/ Mount /\ now' = now /\ AppContent /\ UNCHANGED others
  \/ Submit /\ AppContent /\ UNCHANGED others
  \/ LoginTimer /\ now' = now /\ AppContent /\ UNCHANGED others
  \/ Logout /\ AppContent /\ UNCHANGED others
  \/ Reload /\ PageUnload /\ UNCHANGED others
  \/ InDashboard(SetValue)
  \/ InDashboard(TimerFires)
  \/ InDashboard(ClockTick)
  \/ SearchEffect

SpecDashboard == SpecInit /\ [][DashboardNext]_allVars

\* Provider instances mounted and torn down in any order, user activity and
\* interval callbacks in between.
ProvidersNext ==
  \/ (\E i \in ProviderIds : ProviderMount(i)) /\ UNCHANGED notProviders
  \/ (\E i \in ProviderIds : ProviderUnmount(i)) /\ UNCHANGED notProviders
  \/ (\E e \in activityEvents : ActivityEvent(e)) /\ UNCHANGED notProviders
  \/ (\E h \in intervals : IntervalFires(h)) /\ UNCHANGED notProviders

SpecProviders == SpecInit /\ [][ProvidersNext]_allVars

\* One call of a search function with any arguments.
SearchNext ==
  \/ ElasticSearch /\ UNCHANGED notSearch
  \/ MultiMatchSearch /\ UNCHANGED notSearch

SpecSearch == SpecSearchInit /\ [][SearchNext]_allVars

\* Everything but the single calls.
notFn == <<vars, hookVars, dashVars, provVars, searchVars, hlVars, taskVars>>

SpecScoreInit == Init /\ HookIdle /\ DashIdle /\ ProvIdle /\ SearchIdle /\ HighlightIdle /\ ScoreInit /\ TaskIdle

\* One call of calculateRelevanceScore with any arguments.
ScoreNext == CalculateRelevanceScore /\ UNCHANGED notFn

SpecScore == SpecScoreInit /\ [][ScoreNext]_allVars

SpecDistanceInit == Init /\ HookIdle /\ DashIdle /\ ProvIdle /\ SearchIdle /\ HighlightIdle /\ DistanceInit /\ TaskIdle

\* The distances between three strings.
DistanceNext == LevenshteinDistance /\ UNCHANGED notFn

SpecDistance == SpecDistanceInit /\ [][DistanceNext]_allVars

SpecFuzzyInit == Init /\ HookIdle /\ DashIdle /\ ProvIdle /\ SearchIdle /\ HighlightIdle /\ FuzzyInit /\ TaskIdle

\* One call of fuzzyMatch with any arguments.
FuzzyNext == FuzzyMatch /\ UNCHANGED notFn

SpecFuzzy == SpecFuzzyInit /\ [][FuzzyNext]_allVars

SpecSuggestInit == Init /\ HookIdle /\ DashIdle /\ ProvIdle /\ SearchIdle /\ HighlightIdle /\ SuggestInit /\ TaskIdle

\* One call of getSearchSuggestions with any arguments.
SuggestNext == GetSearchSuggestions /\ UNCHANGED notFn

SpecSuggest == SpecSuggestInit /\ [][SuggestNext]_allVars

SpecEntryInit == Init /\ HookIdle /\ DashIdle /\ ProvIdle /\ SearchIdle /\ HighlightIdle /\ EntryInit /\ TaskIdle

\* One call of any entry point of the search utility.
EntryNext ==
  \/ CallEntryPoint("normalizeText") /\ UNCHANGED notFn
  \/ CallEntryPoint("calculateRelevanceScore") /\ UNCHANGED notFn
  \/ CallEntryPoint("matchesQuery") /\ UNCHANGED notFn
  \/ CallEntryPoint("highlightMatches") /\ UNCHANGED notFn
  \/ CallEntryPoint("fuzzyMatch") /\ UNCHANGED notFn
  \/ CallEntryPoint("getSearchSuggestions") /\ UNCHANGED notFn
  \/ CallEntryPoint("elasticSearch") /\ UNCHANGED notFn
  \/ CallEntryPoint("multiMatchSearch") /\ UNCHANGED notFn

SpecEntry == SpecEntryInit /\ [][EntryNext]_allVars

SpecNotifyInit == Init /\ HookIdle /\ DashIdle /\ ProvIdle /\ SearchIdle /\ HighlightIdle /\ NotifyInit /\ TaskIdle

\* One run of checkTasksAndNotify over any array of tasks.
NotifyNext == CheckTasksAndNotify /\ UNCHANGED notFn

SpecNotify == SpecNotifyInit /\ [][NotifyNext]_allVars

\* Everything but the tasks.
notTasks == <<vars, hookVars, dashVars, provVars, searchVars, hlVars, fnVars>>

\* Dashboard, its create, update, delete and toggle handlers called in any
\* order and overlapping, and the backend that answers them.
TasksNext ==
  \/ DashboardMount /\ UNCHANGED notTasks
  \/ HandleCreateTask /\ UNCHANGED notTasks
  \/ HandleUpdateTask /\ UNCHANGED notTasks
  \/ HandleDeleteTask /\ UNCHANGED notTasks
  \/ HandleToggleComplete /\ UNCHANGED notTasks
  \/ (\E q \in requests : Get(q)) /\ UNCHANGED notTasks
  \/ (\E q \in requests : Post(q)) /\ UNCHANGED notTasks
  \/ (\E q \in requests : Put(q)) /\ UNCHANGED notTasks
  \/ (\E q \in requests : Delete(q)) /\ UNCHANGED notTasks
  \/ (\E q \in requests : ToggleFindById(q)) /\ UNCHANGED notTasks
  \/ (\E q \in requests : ToggleSave(q)) /\ UNCHANGED notTasks
  \/ (\E q \in requests : Response(q)) /\ UNCHANGED notTasks

SpecTasks == SpecInit /\ [][TasksNext]_allVars

\* Dashboard with its automation: paused and enabled, the interval and manual
\* runs, the mails of the runs, while tasks are loaded and created.
AutomationNext ==
  \/ DashboardMount /\ UNCHANGED notTasks
  \/ DashboardUnmount /\ UNCHANGED notTasks
  \/ HandleToggleAutomation /\ UNCHANGED notTasks
  \/ AutomationIntervalFires /\ UNCHANGED notTasks
  \/ HandleManualAutomationRun /\ UNCHANGED notTasks
  \/ (\E run \in runs : SendCompletes(run)) /\ UNCHANGED notTasks
  \/ HandleCreateTask /\ UNCHANGED notTasks
  \/ (\E q \in requests : Get(q)) /\ UNCHANGED notTasks
  \/ (\E q \in requests : Post(q)) /\ UNCHANGED notTasks
  \/ (\E q \in requests : Response(q)) /\ UNCHANGED notTasks

SpecAutomation == SpecInit /\ [][AutomationNext]_allVars

\* The mails sent before the page was loaded (the history is a variable of the
\* module, not of Dashboard): none, or as many as the history holds.
MailInit ==
  /\ sent \in {0, HISTORY_LIMIT}
  /\ notificationHistory = [i \in 1..sent |-> sent - i + 1]

\* Dashboard is not mounted; mails may have been sent before.
SpecHistoryInit ==
  /\ Init /\ HookIdle /\ DashIdle /\ ProvIdle /\ SearchIdle /\ HighlightIdle /\ FnIdle
  /\ db = {SampleDoc(1)}
  /\ nextId = 2
  /\ answered = [id \in 1..MaxDocs |-> 0]
  /\ rewritten = {}
  /\ requests = {}
  /\ issued = 0
  /\ dashboardMounted = FALSE
  /\ dashboardTasks = <<>>
  /\ automationEnabled = TRUE
  /\ failed = FALSE
  /\ intervalOn = FALSE
  /\ getTasks = <<>>
  /\ runs = {}
  /\ started = 0
  /\ lastCheck = NoCheck
  /\ MailInit
  /\ cleared = 0
  /\ lastSend = NoSend

\* The runs of the automation and the manual runs over the loaded tasks, their
\* mails, and the clearing of the history.
HistoryNext ==
  \/ DashboardMount /\ UNCHANGED notTasks
  \/ HandleToggleAutomation /\ UNCHANGED notTasks
  \/ AutomationIntervalFires /\ UNCHANGED notTasks
  \/ HandleManualAutomationRun /\ UNCHANGED notTasks
  \/ (\E run \in runs : SendCompletes(run)) /\ UNCHANGED notTasks
  \/ ClearNotificationHistory /\ UNCHANGED notTasks
  \/ (\E q \in requests : Get(q)) /\ UNCHANGED notTasks
  \/ (\E q \in requests : Response(q)) /\ UNCHANGED notTasks

SpecHistory == SpecHistoryInit /\ [][HistoryNext]_allVars

\* One call of highlightMatches with any arguments.
HighlightNext == HighlightMatches /\ UNCHANGED notHighlight

SpecHighlight == SpecHighlightInit /\ [][HighlightNext]_allVars

\* ------------------------------------------------------------ properties

Token == storage["task_manager_token"]

LastActivity == storage["task_manager_last_activity"]

Timestamp == storage["task_manager_timestamp"]

\* No key of keys is stored.
NoneStored(st, keys) == \A key \in keys : st[key] = Null

\* A session written by login is stored.
SessionStored == Token.k = "jwt" /\ LastActivity.k = "num"

\* C1: isSessionValid reports the stored session valid if and only if a token
\* and a last-activity timestamp are stored, the current time is strictly before
\* the token's expiresAt, and the time since lastActivityAt is strictly less than
\* the 30-minute window.
C1_ValidIffStrictlyWithin ==
  isSessionValid(storage, now, now)
    <=> /\ ~Falsy(Token)
        /\ ~Falsy(LastActivity)
        /\ now < decodeToken(Token).exp
        /\ now - ParseInt(LastActivity).n < EXPIRY_TIME

\* The session has expired as the state machine of the specification defines it.
ExpiredAt(st, t) ==
  \/ t >= decodeToken(st["task_manager_token"]).exp
  \/ SinceActivity(st, t) >= EXPIRY_TIME

\* C2: whenever the user is authenticated and now >= token.expiresAt or
\* now - lastActivityAt >= 30 minutes, the next periodic check of the session
\* monitor makes isAuthenticated false and removes every stored session field.
C2_PeriodicCheckExpires ==
  [][(last'.op = "monitor" /\ isAuthenticated /\ SessionStored /\ ExpiredAt(storage, now))
       => (~isAuthenticated' /\ NoneStored(storage', STORAGE_KEYS))]_vars

\* C3: while the user is authenticated, every tracked interaction sets the stored
\* lastActivityAt to the current time and leaves the stored token unchanged.
C3_ActivityRefreshesLastActivity ==
  [][(last'.op = "activity" /\ isAuthenticated)
       => /\ storage'["task_manager_last_activity"] = NumStr(now')
          /\ storage'["task_manager_token"] = Token]_vars

\* C4: after logout, from any state and after any number of logins, none of the
\* five session keys and neither legacy key remains in session storage, and the
\* state is unauthenticated with user null, expiring flag false, time-left null.
C4_LogoutClearsEverything ==
  last.op = "logout"
    => /\ NoneStored(storage, STORAGE_KEYS)
       /\ NoneStored(storage, LegacyKeys)
       /\ ~isAuthenticated
       /\ user = NoUser
       /\ ~sessionExpiring
       /\ sessionTimeLeft = NoTime

\* A logout that directly follows two logins in a row.
C4_Witness == last.op = "logout" /\ last.n = 2 /\ pendingLogins = 0

\* The user, auth flag and token are stored and the user parses.
FieldsPresent(st) ==
  /\ JsonParses(st["task_manager_user"])
  /\ st["task_manager_auth"] = TrueStr
  /\ ~Falsy(st["task_manager_token"])

\* C5: on page load checkSession makes the state Authenticated, with
\* lastActivityAt refreshed to now, if the stored fields are present and pass
\* isSessionValid; in every other case session storage is cleared of all session
\* keys and the state is Unauthenticated.
C5_LoadRestoresOrClears ==
  [][last'.op = "checkSession"
       => /\ (FieldsPresent(storage) /\ isSessionValid(storage, now', now'))
               => isAuthenticated'
          /\ isAuthenticated'
               => /\ FieldsPresent(storage) /\ isSessionValid(storage, now, now)
                  /\ storage'["task_manager_last_activity"] = NumStr(now')
          /\ ~isAuthenticated' => NoneStored(storage', STORAGE_KEYS)]_vars

C7_PeriodicCheckWarns ==
  [][(/\ last'.op = "monitor"
      /\ isAuthenticated
      /\ SessionStored
      /\ isSessionValid(storage, now', now')
      /\ EXPIRY_TIME - SinceActivity(storage, now) <= WARNING_TIME)
       => /\ sessionExpiring'
          /\ sessionTimeLeft'.set
          /\ isAuthenticated'
          /\ storage' = storage]_vars

\* C8: a login stores all five session fields and yields isAuthenticated true
\* with the expiring flag false, the stored lastActivityAt equal to the stored
\* issued timestamp equal to the token's issuedAt, and the token's expiresAt
\* equal to issuedAt + 30 minutes.
C8_LoginIssuesSession ==
  last.op = "login"
    => /\ \A key \in STORAGE_KEYS : storage[key] # Null
       /\ isAuthenticated
       /\ ~sessionExpiring
       /\ LastActivity = Timestamp
       /\ Timestamp = NumStr(decodeToken(Token).iat)
       /\ decodeToken(Token).exp = decodeToken(Token).iat + EXPIRY_TIME

\* The step logs the user out because the session is found expired: by
\* checkSession on a page load, or by the periodic check.
ExpiryLogout ==
  /\ last'.op \in {"checkSession", "monitor"}
  /\ last'.n = 1
  /\ SessionStored
  /\ NoneStored(storage', STORAGE_KEYS)

\* C9: the session expires only after 30 minutes of inactivity: a user whose
\* consecutive logins, extensions and page loads are never 30 minutes apart is
\* never logged out by expiry.
C9_ActiveUserKeepsSession ==
  [][(ExpiryLogout /\ gapFree) => SinceActivity(storage, now) >= EXPIRY_TIME]_vars

\* A stored token that is not three parts or does not decode, or a stored
\* last-activity value that is no number.
UnreadableSession(st) ==
  \/ st["task_manager_token"] \in {JwtTwoParts, JwtBadPayload}
  \/ st["task_manager_last_activity"] = Junk

\* C10: a stored session that cannot be read or parsed is no valid session:
\* isSessionValid returns false, getSessionInfo returns null, and checkSession
\* ends Unauthenticated with loading false.
C10_UnreadableIsInvalid ==
  /\ [](UnreadableSession(storage)
          => /\ ~isSessionValid(storage, now, now)
             /\ getSessionInfo(storage, now).null)
  /\ [][(/\ last'.op = "checkSession"
         /\ \/ UnreadableSession(storage)
            \/ storage["task_manager_user"] = Junk)
          => (~isAuthenticated' /\ ~loading')]_vars

\* C36: once the initial session check has run, isAuthenticated is true
\* exactly when session keys are stored: while it is true the user, the
\* authenticated flag, the token and the last activity are stored, and while
\* it is false none of the session keys and none of the legacy keys is.
C36_StorageAgreesWithState ==
  ~loading =>
    /\ isAuthenticated =>
         \A key \in {"task_manager_user", "task_manager_auth", "task_manager_token",
                      "task_manager_last_activity"} : ~Falsy(storage[key])
    /\ ~isAuthenticated => NoneStored(storage, AllKeys)

\* updateUser was called on a page where nobody is logged in.
UpdateUserWhileLoggedOut ==
  /\ last.op = "updateUser"
  /\ ~isAuthenticated
  /\ ~Falsy(storage["task_manager_user"])
  /\ Falsy(storage["task_manager_token"])

\* C37: the expiring flag is an overlay on Authenticated: sessionExpiring is
\* never true while isAuthenticated is false.
C37_ExpiringOnlyWhileAuthenticated == sessionExpiring => isAuthenticated

\* Nobody is logged in on a page whose storage holds a session with no more
\* than WARNING_TIME left, and the periodic check has just run.
C37_Witness ==
  /\ last.op = "monitor"
  /\ ~isAuthenticated
  /\ ~getSessionInfo(storage, now).null
  /\ getSessionInfo(storage, now).isExpiring
  /\ isSessionValid(storage, now, now)

\* C38: the time left that getSessionInfo reports agrees with validity:
\* whenever it reports timeUntilExpiry > 0 for the session of the logged-in
\* user, isSessionValid is true at the same instant.
C38_TimeLeftImpliesValid ==
  LET sessionInfo == getSessionInfo(storage, now)
  IN  (isAuthenticated /\ ~sessionInfo.null /\ ~sessionInfo.nan
         /\ sessionInfo.timeUntilExpiry > 0)
        => isSessionValid(storage, now, now)

\* The session was extended late in the life of its token, and the token's
\* deadline has passed since.
ExtendedLateTokenExpired ==
  /\ isAuthenticated
  /\ SessionStored
  /\ now > Token.b
  /\ getSessionInfo(storage, now).timeUntilExpiry > WARNING_TIME
  /\ ~isSessionValid(storage, now, now)

\* ------------------------------------------------------------ notification claims

\* The notifications of the run that are about the task at index i.
NotificationsOf(i) == {k \in DOMAIN fnResult : fnResult[k].task = i}

\* C33: in one run of checkTasksAndNotify a pending task receives at most one
\* notification (the overdue, due-soon and high-priority selections are
\* pairwise disjoint), a completed task receives none, and at most 3
\* high-priority reminders are sent.
C33_OneNotificationPerPendingTask ==
  fn = "checkTasksAndNotify" =>
    /\ \A i \in DOMAIN fnArgs.tasks :
         /\ Cardinality(NotificationsOf(i)) <= 1
         /\ fnArgs.tasks[i].completed => NotificationsOf(i) = {}
    /\ Cardinality({k \in DOMAIN fnResult : fnResult[k].type = "high_priority"})
         <= HIGH_PRIORITY_LIMIT

\* A run over four pending high priority tasks, the first of them overdue:
\* it is notified as overdue only, and the other three are reminded of.
C33_Witness ==
  /\ fn = "checkTasksAndNotify"
  /\ Len(fnArgs.tasks) = 4
  /\ \A i \in 1..4 : fnArgs.tasks[i].priority = "High" /\ ~fnArgs.tasks[i].completed
  /\ fnArgs.tasks[1].dueDate < fnArgs.t1
  /\ fnResult[1] = [type |-> "overdue", task |-> 1]
  /\ Cardinality({k \in DOMAIN fnResult : fnResult[k].type = "high_priority"}) = 3

\* ------------------------------------------------------------ task claims

\* The toggle requests for the task id that the backend has not answered.
TogglesInFlight(id) ==
  {q \in requests : q.kind = "patch" /\ q.id = id /\ q.stage \in {"sent", "found"}}

\* C40: once the n toggle requests made for a task are answered, and nothing
\* else has written the task, its completed flag differs from the original
\* one exactly if n is odd.
C40_ToggleFlipsOncePerRequest ==
  \A task \in db :
    (task.id \notin rewritten /\ TogglesInFlight(task.id) = {})
      => (task.completed # SampleDoc(task.id).completed
            <=> answered[task.id] % 2 = 1)

\* Two toggle requests for one task are answered and the task is completed.
TwoTogglesLeaveTaskToggled ==
  \E task \in db :
    /\ task.id \notin rewritten
    /\ answered[task.id] = 2
    /\ TogglesInFlight(task.id) = {}
    /\ task.completed
    /\ ~SampleDoc(task.id).completed

\* C35: once every request of Dashboard has completed, all of them with
\* success, the tasks of Dashboard are exactly the documents of the backend
\* collection, each once and with its latest values.
C35_TasksAgreeWithBackend ==
  (dashboardMounted /\ requests = {} /\ ~failed)
    => /\ Elements(dashboardTasks) = db
       /\ Len(dashboardTasks) = Cardinality(db)

\* Every request has succeeded and Dashboard lacks a task of the backend.
TaskLostByDashboard ==
  /\ dashboardMounted /\ requests = {} /\ ~failed
  /\ \E task \in db : task.id \notin Shown

\* ------------------------------------------------------------ automation claims

\* C31: a check of the automation, at setup or when the interval fires,
\* examines the tasks of Dashboard as they are at the time of the check, so
\* that a pending overdue task loaded or created after Dashboard was mounted
\* is notified by the next scheduled check.
C31_CheckExaminesCurrentTasks ==
  lastCheck.origin \in {"setup", "interval"} => lastCheck.examined = lastCheck.current

\* The interval has fired while Dashboard showed a pending overdue task that
\* was loaded after the automation was set up; the check found no task and
\* sent nothing.
OverdueTaskMissedByCheck ==
  /\ lastCheck.origin = "interval"
  /\ lastCheck.examined = <<>>
  /\ checkOverdueTasks(lastCheck.current, CheckTime) # <<>>
  /\ runs = {}
  /\ sent = 0

Min2(x, y) == IF x < y THEN x ELSE y

\* C32: the notification history holds at most 100 mails, the newest first,
\* and they are the ones sent last since the history was cleared.
C32_HistoryHoldsLatestHundred ==
  /\ Len(notificationHistory) <= HISTORY_LIMIT
  /\ Len(notificationHistory) = Min2(HISTORY_LIMIT, sent - cleared)
  /\ \A i \in DOMAIN notificationHistory : notificationHistory[i] = sent - i + 1

\* The history is full, a mail older than the mails it holds has been dropped
\* from it, and the mail sent last came from a manual run while a run of the
\* automation waits for its next mail.
C32_Witness ==
  /\ Len(notificationHistory) = HISTORY_LIMIT
  /\ sent > HISTORY_LIMIT
  /\ cleared = 0
  /\ lastSend.origin = "manual"
  /\ \E run \in runs : run.origin = "setup"

\* C34: while the automation is paused, or Dashboard is unmounted, no check of
\* the automation adds a mail to the history.
C34_NoAutomatedMailWhilePaused ==
  lastSend.origin \in {"setup", "interval"} => lastSend.active

\* A run of the automation has sent a mail after the automation was paused.
AutomatedMailWhilePaused ==
  /\ lastSend.origin = "setup"
  /\ ~lastSend.active
  /\ dashboardMounted
  /\ ~automationEnabled
  /\ ~intervalOn

\* ------------------------------------------------------------ debounce claims

\* C11: in useDebounce a change of the value or of the delay cancels the
\* pending timer and starts one for the new value: at most one emission is
\* pending at any moment, it is for the most recent input, and the value a
\* timer emits is the current input, never a superseded one.
C11_OnePendingForLatestInput ==
  /\ [](/\ Cardinality(timers) <= 1
        /\ \A t \in timers : hookMounted /\ t.value = value)
  /\ [][(hookMounted /\ hookMounted' /\ <<value', delay'>> # <<value, delay>>)
          => timers' = {[due |-> clock' + delay', value |-> value', dead |-> FALSE]}]_allVars
  /\ [][(hookLast' = "fire" /\ timers' # timers) => debouncedValue' = value']_allVars

\* A change superseded a pending timer (it came less than the delay after the
\* change before it) and the timer of the later change has fired.
C11_Witness ==
  /\ hookLast = "fire"
  /\ burst >= 2
  /\ emissions = 1
  /\ debouncedValue = "ab"

C13_UnmountCancelsPending ==
  /\ [](~hookMounted => timers = {})
  /\ [][(~hookMounted /\ ~hookMounted') => debouncedValue' = debouncedValue]_allVars

\* The component was unmounted before the timer of its last change was due,
\* and the time the timer was set for has come.
C13_Witness ==
  /\ hookLast = "tick"
  /\ ~hookMounted
  /\ emissions = 0
  /\ burst >= 2
  /\ debouncedValue # value
  /\ clock > lastChange + delay

\* C39: if the input of useDebounce stops changing and the component stays
\* mounted, then, time passing and due timers being run, the debounced value
\* comes to equal the latest input and stays equal to it.
C39_SettlesOnLatestInput ==
  \A v \in Queries :
    <>[](hookMounted /\ value = v) => <>[](debouncedValue = v)

\* The input changed twice in a row and stopped; the timer of the second
\* change has fired and nothing is pending.
C39_Witness ==
  /\ hookMounted
  /\ hookLast = "fire"
  /\ burst = 2
  /\ timers = {}
  /\ debouncedValue = value
  /\ value = "a"

\* C14: the search of Dashboard runs only while the user is authenticated:
\* Dashboard and its effects exist only while isAuthenticated is true, every
\* run of the search effect finds isAuthenticated true, and once the user is
\* logged out no debounced query is pending, no search is scheduled and no
\* result is applied.
C14_SearchOnlyWhileAuthenticated ==
  /\ [](hookMounted => isAuthenticated)
  /\ [](searched.ran => searched.auth)
  /\ [](~isAuthenticated => (timers = {} /\ ~searchDue))
  /\ [][~isAuthenticated' => searched' = searched]_allVars

\* The user logged out while a typed query was waiting for its delay, and the
\* time its timer was set for has passed.
C14_Witness ==
  /\ ~isAuthenticated
  /\ last.op = "logout"
  /\ hookLast = "tick"
  /\ searched.ran
  /\ value # debouncedValue
  /\ emissions = 0
  /\ clock > lastChange + delay

\* ------------------------------------------------------------ provider claims

\* C15: once an AuthProvider instance is torn down, the interval and the
\* activity listeners it registered are removed and none of them runs again:
\* what window holds and what runs belongs to an instance that is mounted.
C15_TornDownLeavesNothing ==
  /\ [](/\ intervals \subseteq LiveHandles
        /\ {l[2] : l \in listeners} \subseteq LiveHandles)
  /\ [][provLast'.op \in {"activity", "interval"}
          => provLast'.handles \subseteq LiveHandles']_allVars

\* ------------------------------------------------------------ search claims

\* The array that was returned.
Results == heap[sResults]

\* A result without what the search added to it.
Strip(r) == [f \in {"title", "description", "priority"} |-> r[f]]

FracEq(x, y) == x.n * y.d = y.n * x.d

\* The fields of sOptions.fields whose value in task t passes the match
\* predicate for the query as it was given.
MatchingListed(t) ==
  {sOptions.fields[i] : i \in {j \in 1..Len(sOptions.fields) :
                                  matchesQuery(t[sOptions.fields[j]], sQuery)}}

\* x is the highest scorer result over the matching listed fields of task t.
HighestListed(t, x) ==
  /\ \E f \in MatchingListed(t) : FracEq(x, calculateRelevanceScore(t[f], sQuery))
  /\ \A f \in MatchingListed(t) : ~FracLess(x, calculateRelevanceScore(t[f], sQuery))

\* Task t is to be returned: a listed field matches and the highest score of
\* the matching listed fields is minScore at least.
Wanted(t) ==
  /\ MatchingListed(t) # {}
  /\ \E f \in MatchingListed(t) :
       ~FracLess(calculateRelevanceScore(t[f], sQuery), sOptions.minScore)

Count(seq, P(_)) == Cardinality({i \in 1..Len(seq) : P(seq[i])})

\* C16: for a non-empty query elasticSearch returns exactly the records that
\* have a listed field passing the match predicate and a score of minScore at
\* least, each as often as it was given, and the score of each is the highest
\* scorer result over its matching listed fields; other fields play no part.
C16_ExactlyMatchingAboveMinScore ==
  (called = "elasticSearch" /\ ~EmptyQuery(sQuery)) =>
    /\ \A i \in 1..Len(Results) :
         /\ Wanted(Strip(Results[i]))
         /\ HighestListed(Strip(Results[i]), Results[i]._score)
    /\ \A t \in SampleTasks :
         Count(Results, LAMBDA r : Strip(r) = t)
           = IF Wanted(t) THEN Count(given, LAMBDA g : g = t) ELSE 0

\* Of two tasks one is returned, scored by the better of its two matching
\* listed fields, and one is dropped although a field that is not listed matches.
C16_Witness ==
  /\ called = "elasticSearch"
  /\ sQuery = <<"a">>
  /\ Len(sOptions.fields) = 2
  /\ Len(given) = 2
  /\ Len(Results) = 1
  /\ Cardinality(MatchingListed(Strip(Results[1]))) = 2
  /\ \E i \in 1..2 : MatchingListed(given[i]) = {} /\ matchesQuery(given[i].priority, sQuery)

\* C17: for an empty, absent or whitespace-only query elasticSearch returns
\* every record given, in the order given, each with score 0 and no
\* highlights, whatever minScore and sortByRelevance are.
C17_EmptyQueryReturnsAll ==
  (called = "elasticSearch" /\ (Not(sQuery) \/ \A i \in 1..Len(sQuery) : sQuery[i] = " ")) =>
    /\ Len(Results) = Len(given)
    /\ \A i \in 1..Len(given) :
         /\ Strip(Results[i]) = given[i]
         /\ Results[i]._score = Frac(0, 1)
         /\ DOMAIN Results[i]._highlights = {}

\* A whitespace-only query, two tasks, a minScore above 0 and sorting asked for.
C17_Witness ==
  /\ called = "elasticSearch"
  /\ sQuery = <<" ">>
  /\ Len(Results) = 2
  /\ Results[1] # Results[2]
  /\ FracLess(Frac(0, 1), sOptions.minScore)
  /\ sOptions.sortByRelevance

\* The tasks that are to be returned, in the order given.
Kept == IF EmptyQuery(sQuery) THEN given ELSE SelectSeq(given, Wanted)

\* The results, stripped, whose score is that of result i.
ResultsScoredAs(i) ==
  LET same == SelectSeq(Results, LAMBDA r : FracEq(r._score, Results[i]._score)) IN
  [k \in 1..Len(same) |-> Strip(same[k])]

\* The tasks to be returned whose highest listed score is that of result i.
KeptScoredAs(i) ==
  SelectSeq(Kept, LAMBDA t : EmptyQuery(sQuery) \/ HighestListed(t, Results[i]._score))

\* C18: with sortByRelevance the result of elasticSearch is in the order of
\* non-increasing score and records of equal score are in the order given;
\* without it the result is in the order given.
C18_SortedStablyOrInputOrder ==
  called = "elasticSearch" =>
    IF sOptions.sortByRelevance
      THEN /\ \A i, j \in 1..Len(Results) :
                i < j => ~FracLess(Results[i]._score, Results[j]._score)
           /\ \A i \in 1..Len(Results) : ResultsScoredAs(i) = KeptScoredAs(i)
      ELSE [k \in 1..Len(Results) |-> Strip(Results[k])] = Kept

\* Two different tasks of equal score were sorted.
C18_Witness ==
  /\ called = "elasticSearch"
  /\ sOptions.sortByRelevance
  /\ ~EmptyQuery(sQuery)
  /\ Len(Results) = 2
  /\ FracEq(Results[1]._score, Results[2]._score)
  /\ Strip(Results[1]) # Strip(Results[2])

\* C19: elasticSearch and multiMatchSearch leave the array they are given as
\* it was: the same records in the same order, nothing added to a record.
C19_InputNotMutated ==
  heap[tasks] = given

\* multiMatchSearch returned the two tasks it was given in the opposite order.
C19_Witness ==
  /\ called = "multiMatchSearch"
  /\ sResults # tasks
  /\ Len(given) = 2
  /\ Len(Results) = 2
  /\ given[1] # given[2]
  /\ Strip(Results[1]) = given[2]

\* ------------------------------------------------------------ multiMatchSearch claims

\* The fields multiMatchSearch weighs.
WeightedFields == {"title", "description", "priority"}

\* The weight of field f: the caller's if there is one, else the default.
WeightOf(f) ==
  IF \E j \in 1..Len(sWeights) : sWeights[j].field = f
    THEN (sWeights[CHOOSE j \in 1..Len(sWeights) : sWeights[j].field = f]).weight
  ELSE CASE f = "title" -> Frac(2, 1)
         [] f = "description" -> Frac(1, 1)
         [] f = "priority" -> Frac(3, 2)

\* The weighted fields of task t that pass the match predicate.
MatchingWeighted(t) == {f \in WeightedFields : matchesQuery(t[f], sQuery)}

\* The scorer result of field f of task t times the weight of f, 0 when the
\* field does not match.
WeightedScore(t, f) ==
  IF f \in MatchingWeighted(t)
    THEN FracTimes(calculateRelevanceScore(t[f], sQuery), WeightOf(f))
    ELSE Frac(0, 1)

\* The sum over the matching weighted fields of task t.
WeightedSum(t) ==
  FracSum(WeightedScore(t, "priority"),
          FracSum(WeightedScore(t, "description"), WeightedScore(t, "title")))

\* What C28 says of the result of multiMatchSearch.
MultiMatchAsClaimed ==
  /\ \A i \in 1..Len(Results) :
       /\ "_score" \in DOMAIN Results[i]
       /\ MatchingWeighted(Strip(Results[i])) # {}
       /\ FracEq(Results[i]._score, WeightedSum(Strip(Results[i])))
       /\ MatchingWeighted(Strip(Results[i])) = {"priority"} =>
            FracEq(Results[i]._score,
                   FracTimes(Frac(3, 2),
                             calculateRelevanceScore(Results[i].priority, sQuery)))
  /\ \A t \in SampleTasks :
       Count(Results, LAMBDA r : Strip(r) = t)
         = IF MatchingWeighted(t) # {} THEN Count(given, LAMBDA g : g = t) ELSE 0
  /\ \A i, j \in 1..Len(Results) :
       i < j => ~FracLess(Results[i]._score, Results[j]._score)

\* C28: multiMatchSearch returns the records of which a weighted field passes
\* the match predicate, each as often as it was given and each scored with
\* the sum of scorer result times weight over its matching fields, whatever
\* the sum is, in the order of non-increasing score; a record that matches in
\* priority only scores 1.5 times the scorer result of its priority.
C28_WeightedSumSortedNoFloor ==
  called = "multiMatchSearch" => MultiMatchAsClaimed

\* The same for the queries that are not empty or whitespace-only.
MultiMatchOfQueryAsClaimed ==
  (called = "multiMatchSearch" /\ ~EmptyQuery(sQuery)) => MultiMatchAsClaimed

\* Two tasks were returned, the first matching in priority only and scored
\* 150, above the 100 that elasticSearch allows at most.
MultiMatchPriorityOnly ==
  /\ called = "multiMatchSearch"
  /\ Len(Results) = 2
  /\ MatchingWeighted(Strip(Results[1])) = {"priority"}
  /\ FracEq(Results[1]._score, Frac(150, 1))
  /\ FracLess(Results[2]._score, Results[1]._score)

\* ------------------------------------------------------------ highlight claims

\* How often the marker m stands in the highlighted string s.
MarkerCount(s, m) == Cardinality({i \in 1..Len(s) : s[i] = m})

\* C20: the highlighted string of highlightMatches holds exactly matchCount
\* pairs of markers, one around each span of matches.
C20_EverySpanMarked ==
  (hlCalled /\ hlResult.returns /\ hlResult.hasMatchCount) =>
    /\ MarkerCount(hlResult.highlighted, "<mark>") = hlResult.matchCount
    /\ MarkerCount(hlResult.highlighted, "</mark>") = hlResult.matchCount

\* C21: the spans of matches are ordered left to right and do not overlap: each
\* span ends at or before the start of the next.
C21_SpansDisjoint ==
  (hlCalled /\ hlResult.returns) =>
    \A i \in 1..(Len(hlResult.matches) - 1) :
      hlResult.matches[i].end <= hlResult.matches[i + 1].start

\* C22: every span of matches lies within the original text, its text is the
\* original text between its offsets, and that text normalizes to the
\* normalized query.
C22_SpanIsTheMatchedText ==
  (hlCalled /\ hlResult.returns) =>
    \A i \in 1..Len(hlResult.matches) :
      LET span == hlResult.matches[i] IN
      /\ 0 <= span.start /\ span.start <= span.end /\ span.end <= Len(hlResult.original)
      /\ span.text = SubSeq(hlResult.original, span.start + 1, span.end)
      /\ normalizeText(span.text) = normalizeText(hlQuery)

\* The string s without its markers.
Unmarked(s) == SelectSeq(s, LAMBDA c : c \notin {"<mark>", "</mark>"})

Core(s) ==
  IF s = Undefined \/ \A i \in 1..Len(s) : s[i] = " " THEN <<>>
  ELSE LET inked == {i \in 1..Len(s) : s[i] # " "}
           first == CHOOSE i \in inked : \A j \in inked : i <= j
           final == CHOOSE i \in inked : \A j \in inked : j <= i
       IN SubSeq(s, first, final)

\* s without the spaces around it, in small letters.
Folded(s) == [i \in 1..Len(Core(s)) |-> IF Core(s)[i] = "A" THEN "a" ELSE Core(s)[i]]

\* x occurs in s.
Occurs(x, s) == \E i \in 0..(Len(s) - Len(x)) : SubSeq(s, i + 1, i + Len(x)) = x

\* The text and the query are the same string up to letter case and the spaces
\* around them.
SameUpToCaseAndSpace ==
  /\ fnArgs.text # Undefined /\ fnArgs.query # Undefined
  /\ Folded(fnArgs.text) = Folded(fnArgs.query)

\* C24, as stated: the score of a text that is not the empty string with
\* itself, up to letter case and the spaces around it, is 100.
C24_SelfScoreIs100 ==
  (fn = "calculateRelevanceScore" /\ fnArgs.text # <<>> /\ SameUpToCaseAndSpace) =>
    FracEq(fnResult, Frac(100, 1))

\* C24, amended: the score of a text that is not empty once the spaces around
\* it are dropped with itself, up to letter case and the spaces around it, is
\* 100.
C24_SelfScoreIs100UnlessBlank ==
  (fn = "calculateRelevanceScore" /\ Core(fnArgs.text) # <<>> /\ SameUpToCaseAndSpace) =>
    FracEq(fnResult, Frac(100, 1))

\* A text scored with a query that differs from it in case and in the spaces
\* around it.
C24_Witness ==
  /\ fn = "calculateRelevanceScore"
  /\ SameUpToCaseAndSpace
  /\ fnArgs.text = <<" ", "A", "b">>
  /\ fnArgs.query = <<"a", "b">>
  /\ FracEq(fnResult, Frac(100, 1))

\* The base score of the text t for the query q, both folded: the first rule
\* that applies.
BaseScore(t, q) ==
  CASE t = q -> 100
    [] t # q /\ Len(q) <= Len(t) /\ SubSeq(t, 1, Len(q)) = q -> 80
    [] OTHER -> IF Occurs(<<" ">> \o q \o <<" ">>, t) THEN 60
                ELSE IF Occurs(q, t) THEN 40
                ELSE 0

OneEdit(s, n) ==
  {SubSeq(s, 1, i - 1) \o SubSeq(s, i + 1, Len(s)) : i \in 1..Len(s)}
  \cup {[s EXCEPT ![i] = c] : i \in 1..Len(s), c \in Letters}
  \cup (IF Len(s) < n
          THEN {SubSeq(s, 1, i) \o <<c>> \o SubSeq(s, i + 1, Len(s)) :
                  i \in 0..Len(s), c \in Letters}
          ELSE {})

\* The strings at most k edits away from a.
RECURSIVE WithinEdits(_, _, _)
WithinEdits(a, k, n) ==
  IF k = 0 THEN {a}
  ELSE LET near == WithinEdits(a, k - 1, n) IN
       near \cup UNION {OneEdit(s, n) : s \in near}

\* The least number of edits that turn a into b. A shortest sequence of edits
\* can be ordered so that no string on the way is longer than the longer of a
\* and b.
EditDistance(a, b) ==
  LET n == IF Len(a) < Len(b) THEN Len(b) ELSE Len(a) IN
  CHOOSE k \in 0..n :
    /\ b \in WithinEdits(a, k, n)
    /\ \A l \in 0..(k - 1) : b \notin WithinEdits(a, l, n)

\* C26: levenshteinDistance(a, b) is the least number of insertions, deletions
\* and substitutions of one character that turn a into b; the distance of a
\* string to itself is 0, the distance is symmetric, and the distance from the
\* first to the third string is at most the sum of the distances by way of the
\* second.
C26_DistanceIsLeastEdits ==
  fn = "levenshteinDistance" =>
    /\ fnResult[<<1, 2>>] = EditDistance(fnArgs[1], fnArgs[2])
    /\ \A i \in 1..3 : fnResult[<<i, i>>] = 0
    /\ \A i, j \in 1..3 : fnResult[<<i, j>>] = fnResult[<<j, i>>]
    /\ fnResult[<<1, 3>>] <= fnResult[<<1, 2>>] + fnResult[<<2, 3>>]

\* Three strings of which the second lies on a shortest way from the first to
\* the third, with a change of length on the way.
C26_Witness ==
  /\ fn = "levenshteinDistance"
  /\ Len(fnArgs[1]) = 3 /\ Len(fnArgs[2]) = 2 /\ Len(fnArgs[3]) = 3
  /\ fnResult[<<1, 2>>] = 2
  /\ fnResult[<<2, 3>>] = 1
  /\ fnResult[<<1, 3>>] = 3

\* ------------------------------------------------------------ fuzzy claims

\* The words of s: the longest stretches without a space.
Tokens(s) ==
  {SubSeq(s, i, j) : i \in 1..Len(s), j \in 1..Len(s)} \ {<<>>}

WordsOf(s) ==
  {w \in Tokens(s) :
     /\ \A k \in 1..Len(w) : w[k] # " "
     /\ \E i \in 1..(Len(s) - Len(w) + 1) :
          /\ SubSeq(s, i, i + Len(w) - 1) = w
          /\ (i = 1 \/ s[i - 1] = " ")
          /\ (i + Len(w) - 1 = Len(s) \/ s[i + Len(w)] = " ")}

\* Some word of the folded text is within maxDistance edits of the folded query.
WordWithinDistance ==
  \E w \in WordsOf(Folded(fnArgs.text)) :
    levenshteinDistance(w, Folded(fnArgs.query)) <= fnArgs.maxDistance

\* C27: fuzzyMatch is true exactly when matchesQuery is true or some word of
\* the normalized text is within maxDistance edits of the normalized query.
C27_FuzzyIsMatchOrNearWord ==
  fn = "fuzzyMatch" =>
    (fnResult <=> (matchesQuery(fnArgs.text, fnArgs.query) \/ WordWithinDistance))

\* The same for the queries that are not empty once normalized.
FuzzyIsMatchOrNearWordOfQuery ==
  (fn = "fuzzyMatch" /\ Folded(fnArgs.query) # <<>>) =>
    (fnResult <=> (matchesQuery(fnArgs.text, fnArgs.query) \/ WordWithinDistance))

\* The misspelt word is found although the text does not contain the query.
FuzzyFindsMisspelt ==
  (fn = "fuzzyMatch" /\ fnArgs.text = MisspeltText /\ fnArgs.query = IntendedWord
     /\ fnArgs.maxDistance = 2) =>
    fnResult /\ ~matchesQuery(fnArgs.text, fnArgs.query)

\* ------------------------------------------------------------ suggestion claims

\* The dictionary that was given, empty when there was none.
Dictionary == IF fnArgs.dictionary = Undefined THEN <<>> ELSE fnArgs.dictionary

\* The longer of the folded query and the folded term.
Longest(term) == Max2(Len(Folded(fnArgs.query)), Len(Folded(term)))

\* The number of edits between the folded query and the folded term.
Apart(term) == levenshteinDistance(Folded(fnArgs.query), Folded(term))

\* 1 - distance / longest > 0.5
Similar(term) == Longest(term) > 0 /\ 2 * (Longest(term) - Apart(term)) > Longest(term)

\* Term x is no more similar to the query than term y, both being similar.
NoMoreSimilar(x, y) ==
  (Longest(x) - Apart(x)) * Longest(y) <= (Longest(y) - Apart(y)) * Longest(x)

\* C29: getSearchSuggestions returns terms of the dictionary, each place of the
\* dictionary at most once, all of similarity above 0.5 to the query, in the
\* order of non-increasing similarity; as many as there are such terms in the
\* dictionary but no more than maxSuggestions, and no term left out is more
\* similar than one returned. For 'pirority' it returns 'priority' and
\* 'priorty' and not 'description'.
C29_MostSimilarTerms ==
  fn = "getSearchSuggestions" =>
    LET good == {i \in 1..Len(Dictionary) : Similar(Dictionary[i])}
        n == IF fnArgs.maxSuggestions < Cardinality(good)
               THEN fnArgs.maxSuggestions ELSE Cardinality(good)
    IN /\ Len(fnResult) = n
       /\ Len(fnResult) <= fnArgs.maxSuggestions
       /\ \E pick \in [1..n -> good] :
            /\ \A k, l \in 1..n : k # l => pick[k] # pick[l]
            /\ \A k \in 1..n : fnResult[k] = Dictionary[pick[k]]
            /\ \A k, l \in 1..n : k < l => NoMoreSimilar(fnResult[l], fnResult[k])
            /\ \A i \in good \ {pick[k] : k \in 1..n} :
                 \A k \in 1..n : NoMoreSimilar(Dictionary[i], fnResult[k])
       /\ fnArgs.query = MisspeltQuery =>
            /\ {fnResult[k] : k \in 1..Len(fnResult)}
                 = {SampleDictionary[1], SampleDictionary[2]}
            /\ fnResult[1] = SampleDictionary[1]

\* Of three similar terms two are returned: the most similar first although it
\* was the last of the dictionary, then the first of the dictionary; the term
\* left out is another one and less similar than the first returned.
C29_Witness ==
  /\ fn = "getSearchSuggestions"
  /\ Len(Dictionary) = 3
  /\ \A i \in 1..3 : Similar(Dictionary[i])
  /\ fnArgs.maxSuggestions = 2
  /\ Len(fnResult) = 2
  /\ fnResult[1] = Dictionary[3]
  /\ fnResult[2] = Dictionary[1]
  /\ ~NoMoreSimilar(Dictionary[3], Dictionary[1])
  /\ ~NoMoreSimilar(Dictionary[3], Dictionary[2])
  /\ Dictionary[2] # Dictionary[1]

\* ------------------------------------------------------------ absent input

\* null, undefined, the empty string or the empty array
Absent(x) == x = Undefined \/ x = <<>>

\* Nothing but spaces, if anything.
Blank(x) == Core(x) = <<>>

\* The call returned.
Returns == fnResult.outcome = "returns"

\* A field that a record lacks is not among its highlights, and a record that
\* lacks every field that is searched is not returned.
LackingFieldDoesNotMatch ==
  \A i \in 1..Len(fnResult.value) :
    LET among == IF fn = "elasticSearch" THEN {"title", "description"}
                 ELSE WeightedFields
    IN /\ \E f \in among : fnResult.value[i][f] # Undefined
       /\ fn = "elasticSearch" =>
            \A f \in DOMAIN fnResult.value[i]._highlights : fnResult.value[i][f] # Undefined

\* C30: called with a text or a query that is null, undefined or the empty
\* string, every entry point returns, and returns its default result: the
\* empty string, score 0, match of everything by no query and of nothing in no
\* text, the text passed through without spans, no fuzzy match, no
\* suggestions, every record with score 0, the array as given. Called with
\* records that lack a searched field or a dictionary that lacks a term, the
\* entry points return, and the lacking field counts as not matching.
C30_AbsentInputReturnsDefault ==
  /\ (fn = "normalizeText" /\ Absent(fnArgs.text)) =>
       Returns /\ fnResult.value = <<>>
  /\ (fn = "calculateRelevanceScore" /\ (Absent(fnArgs.text) \/ Absent(fnArgs.query))) =>
       Returns /\ FracEq(fnResult.value, Frac(0, 1))
  /\ (fn = "matchesQuery" /\ Absent(fnArgs.query)) =>
       Returns /\ fnResult.value = TRUE
  /\ (fn = "matchesQuery" /\ Absent(fnArgs.text) /\ ~Blank(fnArgs.query)) =>
       Returns /\ fnResult.value = FALSE
  /\ (fn = "highlightMatches" /\ (Absent(fnArgs.text) \/ Absent(fnArgs.query))) =>
       /\ Returns
       /\ fnResult.value.original = fnArgs.text
       /\ fnResult.value.highlighted = fnArgs.text
       /\ fnResult.value.matches = <<>>
  /\ (fn = "fuzzyMatch" /\ (Absent(fnArgs.text) \/ Absent(fnArgs.query))) =>
       Returns /\ fnResult.value = FALSE
  /\ (fn = "getSearchSuggestions" /\ (Absent(fnArgs.query) \/ Absent(fnArgs.dictionary))) =>
       Returns /\ fnResult.value = <<>>
  /\ fn = "getSearchSuggestions" => Returns
  /\ (fn = "elasticSearch" /\ Absent(fnArgs.query)) =>
       /\ Returns
       /\ Len(fnResult.value) = Len(fnArgs.tasks)
       /\ \A i \in 1..Len(fnArgs.tasks) :
            /\ Strip(fnResult.value[i]) = fnArgs.tasks[i]
            /\ fnResult.value[i]._score = Frac(0, 1)
            /\ DOMAIN fnResult.value[i]._highlights = {}
  /\ (fn = "multiMatchSearch" /\ Absent(fnArgs.query)) =>
       Returns /\ fnResult.value = fnArgs.tasks
  /\ (fn \in {"elasticSearch", "multiMatchSearch"} /\ ~Blank(fnArgs.query)) =>
       Returns /\ LackingFieldDoesNotMatch

\* elasticSearch returned a record that lacks the title for its description,
\* and highlighted the description only.
C30_Witness ==
  /\ fn = "elasticSearch"
  /\ fnArgs.query = <<"a">>
  /\ Returns
  /\ Len(fnResult.value) = 1
  /\ fnResult.value[1].title = Undefined
  /\ DOMAIN fnResult.value[1]._highlights = {"description"}

\* highlightMatches does not return for a query of spaces only.
HighlightLoopsOnBlankQuery ==
  /\ fn = "highlightMatches"
  /\ fnArgs.text = <<"a">>
  /\ fnArgs.query = <<" ">>
  /\ fnResult.outcome = "loops"

====
